---------------------------- MODULE Spec2Model ----------------------------
(***************************************************************************)
(* A model of the stream composition core of llm-processors:               *)
(*   llm_processors/core/packet.py      Packet                             *)
(*   llm_processors/core/processor.py   BaseProcessor (error isolation)    *)
(*   llm_processors/core/operators.py   SequentialProcessor (+),           *)
(*                                      ParallelProcessor (//)             *)
(*   llm_processors/processors/         ChatProcessor, FilterProcessor     *)
(* and of the context-based pipelines:                                     *)
(*   core/pipeline.py                   SequentialPipeline,                *)
(*                                      ParallelPipeline                   *)
(* Async generators are modelled as explicit generator states advanced by  *)
(* Next (one __anext__ call, up to the point where it suspends).  The only *)
(* await that suspends is ChatProcessor's call of the completion API; an   *)
(* asyncio task runs from one suspension to the next in one step, new      *)
(* tasks start in creation order, and API replies arrive in any order.     *)
(*                                                                         *)
(* Python strings are sequences of tokens (<<"a","b">> is "ab"); the       *)
(* literal None is the token sequence NoneVal, which no formatting yields. *)
(***************************************************************************)
EXTENDS Integers, Sequences, FiniteSets, TLC

VARIABLES
    expr,      \* the composition expression the caller evaluates
    input,     \* the items the caller feeds in (contents of text packets)
    proc,      \* the processor built from expr (NoProc before / on failure)
    gen,       \* the async generator returned by proc(stream) (NoGen before)
    out,       \* items the caller has received so far (collect's results)
    status,    \* "build", "ready", "running", "done" (StopAsyncIteration), "raised"
    raised,    \* the exception that reached the caller (NoExc if none)
    hist,      \* history: events of branch tasks and of the caller, in order
    Image,     \* packet.py's global Image: PIL's Image module, or None if PIL is missing
    pipeline,  \* a core/pipeline.py pipeline and where its execute() stands (NoPipeline if none)
    context    \* the core/context.py Context handed to execute() (NoContext if none)

vars == <<expr, input, proc, gen, out, status, raised, hist, Image, pipeline, context>>

----------------------------------------------------------------------------
(* Bounds of the model *)

MaxLen == 3          \* longest input of a sequential pipeline
MaxParLen == 3       \* longest input of a parallel composite
MaxHistLen == 2      \* longest input when the order of task events is recorded
MaxBranches == 3     \* most processors handed to ParallelProcessor

----------------------------------------------------------------------------
(* Values *)

NoneVal == <<"<None>">>
NoExc == [type |-> "None", msg |-> <<>>]
NoProc == [node |-> "none"]
NoGen == [g |-> "nogen"]
NoPipeline == [cls |-> "none"]

Exc(t, m) == [type |-> t, msg |-> m]

\* {**a, **b}: keys of b override keys of a
DictMerge(a, b) ==
    [k \in (DOMAIN a) \cup (DOMAIN b) |-> IF k \in DOMAIN b THEN b[k] ELSE a[k]]

EmptyDict == [k \in {} |-> <<>>]

NoContext == [data |-> EmptyDict, history |-> <<>>]

Str(s) == [type |-> "str", val |-> s]
Bytes(s) == [type |-> "bytes", val |-> s]
\* a PIL.Image.Image object
Img(s) == [type |-> "image", val |-> s]

\* the module PIL.Image, bound to the global Image when "from PIL import Image" succeeds
PIL == <<"PIL.Image">>

----------------------------------------------------------------------------
(* Packet (core/packet.py) *)

Packet(content, metadata) == [content |-> content, metadata |-> metadata]

IsPacket(item) == "content" \in DOMAIN item

\* no packet (a placeholder where a result carries none)
NoPacket == Packet(Str(<<>>), EmptyDict)

from_text(text, metadata) ==
    Packet(Str(text), DictMerge([mimetype |-> <<"text/plain">>], metadata))

from_bytes(data, metadata) ==
    Packet(Bytes(data), DictMerge([mimetype |-> <<"application/octet-stream">>], metadata))

\* mutant: keys the packet already has keep their values
with_metadataKeepsOld(p, kwargs) == Packet(p.content, DictMerge(kwargs, p.metadata))

with_metadata(p, kwargs) == Packet(p.content, DictMerge(p.metadata, kwargs))

\* mutant: isinstance(self.content, (str, bytes))
is_textOrBytes(p) == p.content.type \in {"str", "bytes"}

is_text(p) == p.content.type = "str"

is_bytes(p) == p.content.type = "bytes"

is_image(p) == IF Image = NoneVal THEN FALSE ELSE p.content.type = "image"

\* Packet.from_image: [exc, val]
from_image(image, metadata) ==
    IF Image = NoneVal
    THEN [exc |-> Exc("ImportError", <<"PIL/Pillow is required for image support">>),
          val |-> NoPacket]
    ELSE [exc |-> NoExc,
          val |-> Packet(image, DictMerge([mimetype |-> <<"image/png">>], metadata))]

substream_name(p) ==
    IF "substream_name" \in DOMAIN p.metadata THEN p.metadata["substream_name"] ELSE NoneVal


----------------------------------------------------------------------------
(* Processors: the composition tree (core/processor.py, core/operators.py) *)

\* A BaseProcessor subclass instance; arg is the constructor argument (a string)
Leaf(cls, handle_errors, arg) ==
    [node |-> "leaf", cls |-> cls, handle_errors |-> handle_errors, arg |-> arg]

\* Arguments of FilterProcessor: None, one name (a Str), or a list of names
None == [type |-> "None"]
List(l) == [type |-> "list", val |-> l]

\* "Normalize include to set" / "Normalize exclude to set": None stays None, a
\* str becomes {str}, a list becomes set(list)
NormalizeNames(names) ==
    CASE names.type = "None" -> None
      [] names.type = "str" -> [type |-> "set", val |-> {names.val}]
      [] names.type = "list" -> [type |-> "set", val |-> {names.val[i] : i \in 1..Len(names.val)}]

\* FilterProcessor.__init__
FilterProcessor(include, exclude) ==
    [node |-> "leaf", cls |-> "FilterProcessor", handle_errors |-> TRUE,
     include |-> NormalizeNames(include), exclude |-> NormalizeNames(exclude)]

\* SequentialProcessor.__init__
SequentialProcessor(first, second) ==
    [node |-> "seq", first |-> first, second |-> second]

\* ParallelProcessor.__init__: [exc, val]; exc is NoExc when construction succeeds
ParallelProcessorMinArity == 2

\* mutant: the arity check is off by one (len(processors) < 1)
ParallelProcessorOffByOne(processors) ==
    IF Len(processors) < ParallelProcessorMinArity - 1
    THEN [exc |-> Exc("ValueError", <<"ParallelProcessor requires at least 2 processors">>),
          val |-> NoProc]
    ELSE [exc |-> NoExc, val |-> [node |-> "par", processors |-> processors]]

ParallelProcessor(processors) ==
    IF Len(processors) < ParallelProcessorMinArity
    THEN [exc |-> Exc("ValueError", <<"ParallelProcessor requires at least 2 processors">>),
          val |-> NoProc]
    ELSE [exc |-> NoExc, val |-> [node |-> "par", processors |-> processors]]

\* mutant: chaining onto a chain keeps only its first stage
AddDropsMiddle(self, other) ==
    IF self.node = "seq" THEN SequentialProcessor(self.first, other)
    ELSE SequentialProcessor(self, other)

\* BaseProcessor.__add__
Add(self, other) == SequentialProcessor(self, other)

\* BaseProcessor.__floordiv__
FloorDiv(self, other) == ParallelProcessor(<<self, other>>)

\* processor.__class__.__name__
ClassName(p) ==
    CASE p.node = "leaf" -> p.cls
      [] p.node = "seq" -> "SequentialProcessor"
      [] p.node = "par" -> "ParallelProcessor"

\* The caller's expression: leaves combined with +, // and ParallelProcessor(...).
\* Evaluation is left to right and stops at the first exception.
RECURSIVE Eval(_)
RECURSIVE EvalArgs(_)
EvalArgs(args) ==
    IF args = <<>> THEN [exc |-> NoExc, val |-> <<>>]
    ELSE LET h == Eval(Head(args)) IN
         IF h.exc # NoExc THEN [exc |-> h.exc, val |-> <<>>]
         ELSE LET t == EvalArgs(Tail(args)) IN
              IF t.exc # NoExc THEN t
              ELSE [exc |-> NoExc, val |-> <<h.val>> \o t.val]

Eval(e) ==
    CASE e.op = "leaf" -> [exc |-> NoExc, val |-> e.p]
      [] e.op = "ParallelProcessor" ->
            LET a == EvalArgs(e.args) IN
            IF a.exc # NoExc THEN [exc |-> a.exc, val |-> NoProc]
            ELSE ParallelProcessor(a.val)
      [] e.op \in {"+", "//"} ->
            LET a == EvalArgs(<<e.l, e.r>>) IN
            IF a.exc # NoExc THEN [exc |-> a.exc, val |-> NoProc]
            ELSE IF e.op = "+" THEN [exc |-> NoExc, val |-> Add(a.val[1], a.val[2])]
            ELSE FloorDiv(a.val[1], a.val[2])

L(p) == [op |-> "leaf", p |-> p]
Plus(l, r) == [op |-> "+", l |-> l, r |-> r]
Slashes(l, r) == [op |-> "//", l |-> l, r |-> r]
Par(args) == [op |-> "ParallelProcessor", args |-> args]

----------------------------------------------------------------------------
(* Leaf processors: _process_stream applied to one packet of its stream.   *)
(* Result: the items it yields for that packet, then the exception it      *)
(* raises (NoExc if it goes on to the next packet).                        *)

UpperChar(c) ==
    CASE c = "a" -> "A"
      [] c = "b" -> "B"
      [] c = "re:" -> "RE:"
      [] c = "api failed" -> "API FAILED"
      [] OTHER -> c

\* str.upper()
Upper(s) == [i \in 1..Len(s) |-> UpperChar(s[i])]

\* The completion API consumed by ChatProcessor: a fixed mock that echoes
ApiReply(content) == <<"re:">> \o content

ApiError == Exc("APIError", <<"api failed">>)

\* mutant: the blacklist is not consulted
should_passIgnoresExclude(p, packet) ==
    LET substream == substream_name(packet) IN
    IF p.include # None /\ substream \notin p.include.val THEN FALSE
    ELSE TRUE

\* FilterProcessor._should_pass
should_pass(p, packet) ==
    LET substream == substream_name(packet) IN
    IF p.include # None /\ substream \notin p.include.val THEN FALSE
    ELSE IF p.exclude # None /\ substream \in p.exclude.val THEN FALSE
    ELSE TRUE

ProcessPacket(p, packet) ==
    CASE p.cls = "FilterProcessor" ->
            [out |-> IF should_pass(p, packet) THEN <<packet>> ELSE <<>>, exc |-> NoExc]
      [] p.cls = "UppercaseProcessor" ->
            [out |-> IF is_text(packet)
                     THEN <<from_text(Upper(packet.content.val), EmptyDict)>>
                     ELSE <<packet>>,
             exc |-> NoExc]
      [] p.cls = "AddExclamationProcessor" ->
            [out |-> IF is_text(packet)
                     THEN <<from_text(packet.content.val \o <<"!">>, EmptyDict)>>
                     ELSE <<packet>>,
             exc |-> NoExc]
      [] p.cls = "PrefixProcessor" ->
            [out |-> IF is_text(packet)
                     THEN <<from_text(p.arg \o packet.content.val, EmptyDict)>>
                     ELSE <<packet>>,
             exc |-> NoExc]
      [] p.cls = "PassThroughProcessor" ->
            [out |-> <<packet>>, exc |-> NoExc]
      [] p.cls = "ChatProcessor" ->
            \* p.arg: the prompt on which the completion API call fails
            IF ~is_text(packet) THEN [out |-> <<packet>>, exc |-> NoExc]
            ELSE IF packet.content.val = p.arg THEN [out |-> <<>>, exc |-> ApiError]
            ELSE [out |-> <<from_text(ApiReply(packet.content.val),
                              DictMerge([model |-> <<"gpt">>, finish_reason |-> <<"stop">>],
                                        IF packet.metadata # EmptyDict
                                        THEN [source_metadata |-> packet.metadata]
                                        ELSE EmptyDict))>>,
                  exc |-> NoExc]

\* n marks, for the n-th packet of a stream
RECURSIVE Marks(_)
Marks(n) == IF n = 0 THEN <<>> ELSE <<"#">> \o Marks(n - 1)

ProcessingError == Exc("ValueError", <<"cannot split">>)

\* SplitProcessor is a subclass whose _process_stream yields one packet for
\* each of its parts (p.arg) and raises on the prompt "b" after it has
\* yielded them; other packets it passes on
Split(p, packet) ==
    IF is_text(packet) /\ packet.content.val = <<"b">>
    THEN [out |-> [j \in 1..Len(p.arg) |->
                     from_text(packet.content.val \o <<p.arg[j]>>, EmptyDict)],
          exc |-> ProcessingError]
    ELSE [out |-> <<packet>>, exc |-> NoExc]

\* mutant: what the transform yielded for a packet is dropped when it raises
TransformAllOrNothing(p, n, packet) ==
    LET t == IF p.cls = "NumberingProcessor"
             THEN [out |-> IF is_text(packet)
                           THEN <<from_text(Marks(n) \o packet.content.val, EmptyDict)>>
                           ELSE <<packet>>,
                   exc |-> NoExc]
             ELSE IF p.cls = "SplitProcessor" THEN Split(p, packet)
             ELSE ProcessPacket(p, packet)
    IN IF t.exc # NoExc THEN [t EXCEPT !.out = <<>>] ELSE t

\* What one invocation of p._process_stream makes of the n-th packet it reads
\* from its stream: the packets it yields, and the exception it then raises
\* (NoExc if none).  NumberingProcessor is a subclass whose _process_stream
\* keeps a local count of the packets read and marks each text with it; the
\* other classes keep nothing from one packet to the next.
Transform(p, n, packet) ==
    IF p.cls = "NumberingProcessor"
    THEN [out |-> IF is_text(packet)
                  THEN <<from_text(Marks(n) \o packet.content.val, EmptyDict)>>
                  ELSE <<packet>>,
          exc |-> NoExc]
    ELSE IF p.cls = "SplitProcessor" THEN Split(p, packet)
    ELSE ProcessPacket(p, packet)

----------------------------------------------------------------------------
(* Async iterables.  Each is a record with its kind in field g; Next(g) is *)
(* one __anext__ call and returns what it delivered and the new state:     *)
(*   k = "item"    an item v was yielded                                   *)
(*   k = "stop"    StopAsyncIteration                                      *)
(*   k = "raise"   exception e was raised                                  *)
(*   k = "pending" the call is suspended at an await (nothing delivered)   *)

R(k, v, e, g) == [k |-> k, v |-> v, e |-> e, g |-> g]

\* stream=None
NoneStream == [g |-> "none"]

\* an async generator over a list: StreamAdapter.from_sync_iterable,
\* ParallelProcessor._run_processor.stream_from_list, empty_stream
ListStream(items) == [g |-> "list", items |-> items, pos |-> 0]

\* PacketConverter.to_packet for str and bytes
to_packet(data) ==
    IF data.type = "str" THEN from_text(data.val, EmptyDict) ELSE from_bytes(data.val, EmptyDict)

\* StreamAdapter.from_items
from_items(items) ==
    ListStream([i \in 1..Len(items) |->
                  IF IsPacket(items[i]) THEN items[i] ELSE to_packet(items[i])])

\* BaseProcessor.__call__ before its first __anext__
BaseCall(p, stream) ==
    [g |-> "base", p |-> p, up |-> stream, pend |-> <<>>, exc |-> NoExc,
     cur |-> NoPacket, wait |-> FALSE, fin |-> FALSE, seen |-> 0]

\* FromIterableProcessor.__call__: ignores the input stream and yields a text
\* packet for each of its own items (p.arg, one token an item)
FromIterableCall(p, stream) ==
    ListStream([i \in 1..Len(p.arg) |-> from_text(<<p.arg[i]>>, EmptyDict)])

\* SequentialProcessor._normalize_stream before its first __anext__
NormalizeStream(stream) == [g |-> "norm", up |-> stream]

\* mutant: the composites hand stream=None on as it is
OrEmptyKeepsNone(stream) == stream

\* the substitution of an empty stream for stream=None in both composites
OrEmpty(stream) == IF stream = NoneStream THEN ListStream(<<>>) ELSE stream

\* processor(stream): the generator object a call returns
RECURSIVE Call(_, _)

\* mutant: the branch tasks are created before the input stream is read
ParallelCallDispatchesFirst(p, stream) ==
    [g |-> "par", p |-> p, up |-> OrEmpty(stream), phase |-> "merge",
     packets |-> <<>>,
     tasks |-> [i \in 1..Len(p.processors) |->
                  [index |-> i - 1, processor |-> p.processors[i],
                   gen |-> Call(p.processors[i], ListStream(<<>>)),
                   results |-> <<>>, st |-> "created", exc |-> NoExc]],
     order |-> <<>>, taken |-> 0, cur |-> 0, ri |-> 0, fin |-> FALSE]

\* ParallelProcessor.__call__ before its first __anext__
ParallelCall(p, stream) ==
    [g |-> "par", p |-> p, up |-> OrEmpty(stream), phase |-> "materialize",
     packets |-> <<>>, tasks |-> <<>>, order |-> <<>>, taken |-> 0,
     cur |-> 0, ri |-> 0, fin |-> FALSE]

\* mutant: second is fed the input stream instead of first's output
SequentialCallSkipsFirst(p, stream) ==
    [g |-> "seq", inner |-> Call(p.second, NormalizeStream(OrEmpty(stream)))]

\* SequentialProcessor.__call__
SequentialCall(p, stream) ==
    [g |-> "seq",
     inner |-> Call(p.second, NormalizeStream(Call(p.first, OrEmpty(stream))))]

Call(p, stream) ==
    CASE p.node = "leaf" ->
            IF p.cls = "FromIterableProcessor" THEN FromIterableCall(p, stream)
            ELSE BaseCall(p, stream)
      [] p.node = "seq" -> SequentialCall(p, stream)
      [] p.node = "par" -> ParallelCall(p, stream)

\* mutant: the stream ends after the error packet
AfterErrorStops(g) == [g EXCEPT !.exc = NoExc, !.fin = TRUE]

\* after an exception the stream goes on with the next input packet
AfterError(g) == [g EXCEPT !.exc = NoExc]

\* mutant: the error packet is not marked with substream_name 'error'
ErrorPacketUntagged(e, packet) ==
    from_text(e.msg,
              DictMerge([error_type |-> <<e.type>>],
                        IF packet.metadata # EmptyDict
                        THEN [source_metadata |-> packet.metadata]
                        ELSE EmptyDict))

\* mutant: the error packet does not carry the failing packet's metadata
ErrorPacketDropsSource(e, packet) ==
    from_text(e.msg, [substream_name |-> <<"error">>, error_type |-> <<e.type>>])

\* the packet BaseProcessor.__call__ yields in place of exception e
ErrorPacket(e, packet) ==
    from_text(e.msg,
              DictMerge([substream_name |-> <<"error">>, error_type |-> <<e.type>>],
                        IF packet.metadata # EmptyDict
                        THEN [source_metadata |-> packet.metadata]
                        ELSE EmptyDict))

\* SequentialProcessor._normalize_stream applied to one item
Normalize(item) ==
    IF IsPacket(item) THEN item
    ELSE IF item.type = "str" THEN from_text(item.val, EmptyDict)
    ELSE from_bytes(item.val, EmptyDict)

\* f"branch_{index}_{processor.__class__.__name__}"
IntStr(i) == <<"0", "1", "2", "3", "4", "5", "6", "7", "8", "9">>[i + 1]

\* mutant: the tag leaves out the branch index
BranchTagNoIndex(index, p) == <<"branch_", ClassName(p)>>

BranchTag(index, p) == <<"branch_", IntStr(index), "_", ClassName(p)>>

\* mutant: the branches share one pass over the input, so only the first task
\* finds any items in it
NewTaskSharedStream(processor, packets, index) ==
    [index |-> index, processor |-> processor,
     gen |-> Call(processor, ListStream(IF index = 0 THEN packets ELSE <<>>)),
     results |-> <<>>, st |-> "created", exc |-> NoExc]

\* mutant: the branches iterate one shared stream, so a branch starts where
\* the branches before it have left it
NewTaskConsumedStream(processor, packets, index) ==
    [index |-> index, processor |-> processor,
     gen |-> Call(processor, ListStream(SubSeq(packets, index + 1, Len(packets)))),
     results |-> <<>>, st |-> "created", exc |-> NoExc]

\* asyncio.create_task(self._run_processor(processor, packets, idx))
NewTask(processor, packets, index) ==
    [index |-> index, processor |-> processor,
     gen |-> Call(processor, ListStream(packets)),
     results |-> <<>>, st |-> "created", exc |-> NoExc]

\* mutant: the completion API is called for every packet, text or not
SuspendsOnEvery(p, packet) == p.cls = "ChatProcessor"

\* whether _process_stream of p suspends while it handles packet: only
\* "await self.client.chat.completions.create(...)" does, for a text packet
Suspends(p, packet) == p.cls = "ChatProcessor" /\ is_text(packet)

RECURSIVE Next(_)

\* mutant: exceptions are converted to error packets whatever handle_errors says
IsolatesAlways(p) == TRUE

\* "if not self.handle_errors: ... else:": whether exceptions of p's transform
\* are converted to error packets
Isolates(p) == p.handle_errors

\* mutant: one _process_stream invocation serves the whole stream whatever
\* handle_errors says
NthReadCarriesOver(g) == g.seen

\* Which packet of its own stream the running _process_stream invocation is
\* handling: with handle_errors it was started on single_packet_stream() for
\* this packet alone, without it was started once on the whole stream
NthRead(g) == IF Isolates(g.p) THEN 1 ELSE g.seen

\* mutant: an exception of the input stream is converted to an error packet
\* like one of the transform
UpstreamRaisedIsolated(g, r) ==
    IF Isolates(g.p)
    THEN R("item", ErrorPacket(r.e, g.cur), NoExc, [g EXCEPT !.up = r.g])
    ELSE R("raise", NoPacket, r.e, [g EXCEPT !.up = r.g, !.fin = TRUE])

\* "async for packet in stream" raises (outcome r of the input stream's
\* __anext__): in both branches of __call__ the loop header is outside any
\* try, so the exception leaves the generator
UpstreamRaised(g, r) == R("raise", NoPacket, r.e, [g EXCEPT !.up = r.g, !.fin = TRUE])

\* BaseProcessor.__call__
NextBase(g) ==
    IF g.fin THEN R("stop", NoPacket, NoExc, g)
    ELSE IF g.pend # <<>> THEN R("item", Head(g.pend), NoExc, [g EXCEPT !.pend = Tail(@)])
    ELSE IF g.exc # NoExc THEN
        IF Isolates(g.p)
        THEN R("item", ErrorPacket(g.exc, g.cur), NoExc, AfterError(g))
        ELSE R("raise", NoPacket, g.exc, [g EXCEPT !.exc = NoExc, !.fin = TRUE])
    ELSE IF g.wait THEN
        \* resumed: the API call returns or raises
        LET t == Transform(g.p, NthRead(g), g.cur) IN
        Next([g EXCEPT !.wait = FALSE, !.pend = t.out, !.exc = t.exc])
    ELSE LET r == Next(g.up) IN
         CASE r.k = "item" ->
                LET g1 == [g EXCEPT !.up = r.g, !.cur = r.v, !.seen = @ + 1] IN
                IF Suspends(g.p, r.v)
                THEN R("pending", NoPacket, NoExc, [g1 EXCEPT !.wait = TRUE])
                ELSE LET t == Transform(g.p, NthRead(g1), r.v) IN
                     Next([g1 EXCEPT !.pend = t.out, !.exc = t.exc])
           [] r.k = "stop" -> R("stop", NoPacket, NoExc, [g EXCEPT !.up = r.g, !.fin = TRUE])
           [] r.k = "raise" -> UpstreamRaised(g, r)
           [] r.k = "pending" -> R("pending", NoPacket, NoExc, [g EXCEPT !.up = r.g])

\* "async for item in stream" run to its end when no task has to run in
\* between: the items received, the exception that ended the iteration (NoExc
\* on StopAsyncIteration) and the stream as it is left; a stream that
\* suspends awaiting the API is resumed when the reply is there
RECURSIVE Drain(_, _)
Drain(g, acc) ==
    LET r == Next(g) IN
    CASE r.k = "item" -> Drain(r.g, Append(acc, r.v))
      [] r.k = "stop" -> [out |-> acc, exc |-> NoExc, g |-> r.g]
      [] r.k = "raise" -> [out |-> acc, exc |-> r.e, g |-> r.g]
      [] r.k = "pending" -> IF r.g # g THEN Drain(r.g, acc)
                            ELSE [out |-> acc, exc |-> Exc("Pending", <<>>), g |-> r.g]

\* mutant: first's output is read to its end and buffered before second gets
\* its first packet
NextNormBuffers(g) ==
    IF "buf" \notin DOMAIN g
    THEN LET d == Drain(g.up, <<>>) IN
         Next([g |-> "norm", up |-> d.g, buf |-> d.out, exc |-> d.exc])
    ELSE IF g.buf # <<>>
    THEN R("item", Normalize(Head(g.buf)), NoExc, [g EXCEPT !.buf = Tail(@)])
    ELSE IF g.exc # NoExc THEN R("raise", NoPacket, g.exc, [g EXCEPT !.exc = NoExc])
    ELSE R("stop", NoPacket, NoExc, g)

\* mutant: packets named 'error' are not handed to the second stage
NextNormDropsErrors(g) ==
    LET r == Next(g.up) IN
    IF r.k = "item" /\ IsPacket(r.v) /\ substream_name(r.v) = <<"error">>
    THEN Next([g EXCEPT !.up = r.g])
    ELSE R(r.k, IF r.k = "item" THEN Normalize(r.v) ELSE r.v, r.e, [g EXCEPT !.up = r.g])

\* SequentialProcessor._normalize_stream
NextNorm(g) ==
    LET r == Next(g.up) IN
    R(r.k, IF r.k = "item" THEN Normalize(r.v) ELSE r.v, r.e, [g EXCEPT !.up = r.g])

\* mutant: the composite ends its stream when a child raises
NextSeqSwallows(g) ==
    LET r == Next(g.inner) IN
    IF r.k = "raise" THEN R("stop", NoPacket, NoExc, [g EXCEPT !.inner = r.g])
    ELSE R(r.k, r.v, r.e, [g EXCEPT !.inner = r.g])

\* SequentialProcessor.__call__: async for result in self.second(normalized): yield result
NextSeq(g) ==
    LET r == Next(g.inner) IN R(r.k, r.v, r.e, [g EXCEPT !.inner = r.g])

\* mutant: no task is created for an empty input
CreateTasksUnlessEmpty(g) ==
    IF g.packets = <<>> THEN <<>>
    ELSE [i \in 1..Len(g.p.processors) |-> NewTask(g.p.processors[i], g.packets, i - 1)]

\* for idx, processor in enumerate(self.processors): tasks.append(create_task(...))
CreateTasks(g) ==
    [i \in 1..Len(g.p.processors) |-> NewTask(g.p.processors[i], g.packets, i - 1)]

\* mutant: the tasks are awaited in index order (for task in tasks)
ReadyTaskInIndexOrder(g) ==
    IF g.taken < Len(g.tasks) /\ g.tasks[g.taken + 1].st \in {"done", "failed"}
    THEN g.taken + 1 ELSE 0

\* mutant: no task is handed over before all of them have completed
ReadyTaskWhenAllDone(g) ==
    IF Len(g.order) = Len(g.tasks) /\ g.taken < Len(g.order)
    THEN g.order[g.taken + 1] ELSE 0

\* asyncio.as_completed(tasks): the task handed over next (its position in
\* tasks), in order of completion; 0 while none of the remaining has completed
ReadyTask(g) == IF g.taken < Len(g.order) THEN g.order[g.taken + 1] ELSE 0

\* mutant: the merge loop ends when no completed task is waiting
AllTakenEarly(g) == g.taken = Len(g.order)

\* the for loop over as_completed(tasks) is exhausted
AllTaken(g) == g.taken = Len(g.tasks)

\* mutant: a failed task counts as one that returned what it had collected
TaskFailedSwallowed(t) == FALSE

\* "results = await task" raises the task's exception
TaskFailed(t) == t.st = "failed"

\* ParallelProcessor.__call__
NextPar(g) ==
    IF g.fin THEN R("stop", NoPacket, NoExc, g)
    ELSE IF g.phase = "materialize" THEN
        LET r == Next(g.up) IN
        CASE r.k = "item" -> Next([g EXCEPT !.up = r.g, !.packets = Append(@, r.v)])
          [] r.k = "stop" ->
                Next([g EXCEPT !.up = r.g, !.phase = "merge", !.tasks = CreateTasks(g)])
          [] r.k = "raise" -> R("raise", NoPacket, r.e, [g EXCEPT !.up = r.g, !.fin = TRUE])
          [] r.k = "pending" -> R("pending", NoPacket, NoExc, [g EXCEPT !.up = r.g])
    ELSE IF g.cur # 0 /\ g.ri < Len(g.tasks[g.cur].results) THEN
        R("item", g.tasks[g.cur].results[g.ri + 1], NoExc, [g EXCEPT !.ri = @ + 1])
    ELSE IF AllTaken(g) THEN R("stop", NoPacket, NoExc, [g EXCEPT !.fin = TRUE])
    ELSE IF ReadyTask(g) # 0 THEN
        LET t == ReadyTask(g) IN
        IF TaskFailed(g.tasks[t])
        THEN R("raise", NoPacket, g.tasks[t].exc, [g EXCEPT !.taken = @ + 1, !.fin = TRUE])
        ELSE Next([g EXCEPT !.taken = @ + 1, !.cur = t, !.ri = 0])
    ELSE R("pending", NoPacket, NoExc, g)

Next(g) ==
    CASE g.g = "none" ->
            R("raise", NoPacket,
              Exc("TypeError", <<"'async for' requires an object with __aiter__ method">>), g)
      [] g.g = "list" ->
            IF g.pos < Len(g.items)
            THEN R("item", g.items[g.pos + 1], NoExc, [g EXCEPT !.pos = @ + 1])
            ELSE R("stop", NoPacket, NoExc, g)
      [] g.g = "base" -> NextBase(g)
      [] g.g = "norm" -> NextNorm(g)
      [] g.g = "seq" -> NextSeq(g)
      [] g.g = "par" -> NextPar(g)

\* collect(stream)
collect(g) == Drain(g, <<>>)

----------------------------------------------------------------------------
(* Branch tasks (ParallelProcessor._run_processor) and the event loop.  A  *)
(* task runs without interruption until its processor suspends (awaiting   *)
(* the API) or it returns or raises.  Tasks start in the order they were   *)
(* created, before anything suspended is resumed; after that the event     *)
(* loop resumes suspended tasks and the caller in any order.               *)

Event(branch, kind) == [branch |-> branch, kind |-> kind]

\* mutant: a result that already has a substream_name keeps it
TagResultKeepsOld(result, index, processor) ==
    IF IsPacket(result) /\ substream_name(result) = NoneVal
    THEN with_metadata(result, [substream_name |-> BranchTag(index, processor)])
    ELSE result

\* the tagging of one result
TagResult(result, index, processor) ==
    IF IsPacket(result)
    THEN with_metadata(result, [substream_name |-> BranchTag(index, processor)])
    ELSE result

\* mutant: _run_processor catches its processor's exception, appends an error
\* packet for it to its results and returns them
RECURSIVE RunProcessorConvertsException(_, _)
RunProcessorConvertsException(t, evs) ==
    LET r == Next(t.gen) IN
    CASE r.k = "item" ->
            RunProcessorConvertsException(
                [t EXCEPT !.gen = r.g, !.st = "running",
                          !.results = Append(@, TagResult(r.v, t.index, t.processor))],
                Append(evs, Event(t.index, "item")))
      [] r.k = "stop" ->
            [t |-> [t EXCEPT !.gen = r.g, !.st = "done"],
             evs |-> Append(evs, Event(t.index, "done"))]
      [] r.k = "raise" ->
            [t |-> [t EXCEPT !.gen = r.g, !.st = "done",
                             !.results = Append(@, TagResult(ErrorPacket(r.e, NoPacket),
                                                             t.index, t.processor))],
             evs |-> Append(evs, Event(t.index, "done"))]
      [] r.k = "pending" ->
            [t |-> [t EXCEPT !.gen = r.g, !.st = "running"], evs |-> evs]

\* _run_processor from where task t stands to its next suspension or its end
RECURSIVE RunProcessor(_, _)
RunProcessor(t, evs) ==
    LET r == Next(t.gen) IN
    CASE r.k = "item" ->
            RunProcessor([t EXCEPT !.gen = r.g, !.st = "running",
                                   !.results = Append(@, TagResult(r.v, t.index, t.processor))],
                         Append(evs, Event(t.index, "item")))
      [] r.k = "stop" ->
            [t |-> [t EXCEPT !.gen = r.g, !.st = "done"],
             evs |-> Append(evs, Event(t.index, "done"))]
      [] r.k = "raise" ->
            [t |-> [t EXCEPT !.gen = r.g, !.st = "failed", !.exc = r.e],
             evs |-> Append(evs, Event(t.index, "failed"))]
      [] r.k = "pending" ->
            [t |-> [t EXCEPT !.gen = r.g, !.st = "running"], evs |-> evs]

Live(t) == t.st \in {"created", "running"}

\* mutant: the tag is written into the metadata of the packet the branch
\* produced, which for a packet passed through is the input packet itself
RunProcessorStepTagsInPlace(g, i) ==
    LET b == RunProcessor(g.tasks[i], <<>>) IN
    [g |-> [g EXCEPT !.tasks[i] = b.t,
                     !.order = IF Live(b.t) THEN @ ELSE Append(@, i),
                     !.packets = [k \in 1..Len(g.packets) |->
                                    IF /\ k <= Len(b.t.results)
                                       /\ b.t.results[k] = TagResult(g.packets[k], b.t.index,
                                                                      b.t.processor)
                                    THEN b.t.results[k] ELSE g.packets[k]]],
     evs |-> b.evs]

\* mutant: a task is handed to the merge loop at its first suspension, and its
\* results are yielded as they come
RunProcessorStepHandsOverEarly(g, i) ==
    LET b == RunProcessor(g.tasks[i], <<>>) IN
    [g |-> [g EXCEPT !.tasks[i] = b.t,
                     !.order = IF \E k \in 1..Len(@) : @[k] = i THEN @ ELSE Append(@, i)],
     evs |-> b.evs]

\* one step of task i (1-based position in tasks) of parallel generator g;
\* a task that returns or raises is handed to as_completed
RunProcessorStep(g, i) ==
    LET b == RunProcessor(g.tasks[i], <<>>) IN
    [g |-> [g EXCEPT !.tasks[i] = b.t,
                     !.order = IF Live(b.t) THEN @ ELSE Append(@, i)],
     evs |-> b.evs]

\* mutant: the tasks still running are cancelled when the merge loop is left
\* with a task's exception
RunnableUntilAbort(g) ==
    IF g.taken >= 1 /\ g.tasks[g.order[g.taken]].st = "failed" THEN {}
    ELSE LET created == {j \in 1..Len(g.tasks) : g.tasks[j].st = "created"} IN
         IF created # {}
         THEN {j \in created : \A k \in created : j <= k}
         ELSE {j \in 1..Len(g.tasks) : g.tasks[j].st = "running"}

\* the tasks of g the event loop may run next: the first one not yet started,
\* or else any suspended one
Runnable(g) ==
    LET created == {j \in 1..Len(g.tasks) : g.tasks[j].st = "created"} IN
    IF created # {}
    THEN {j \in created : \A k \in created : j <= k}
    ELSE {j \in 1..Len(g.tasks) : g.tasks[j].st = "running"}

\* every way one task somewhere inside generator g can take one step
RECURSIVE TaskSuccs(_)
TaskSuccs(g) ==
    CASE g.g \in {"none", "list"} -> {}
      [] g.g \in {"base", "norm"} ->
            {[g |-> [g EXCEPT !.up = s.g], evs |-> <<>>] : s \in TaskSuccs(g.up)}
      [] g.g = "seq" ->
            {[g |-> [g EXCEPT !.inner = s.g], evs |-> <<>>] : s \in TaskSuccs(g.inner)}
      [] g.g = "par" ->
            {[g |-> [g EXCEPT !.up = s.g], evs |-> <<>>] : s \in TaskSuccs(g.up)}
            \cup {RunProcessorStep(g, i) : i \in Runnable(g)}
            \cup UNION {{[g |-> [g EXCEPT !.tasks[i].gen = s.g], evs |-> <<>>]
                           : s \in TaskSuccs(g.tasks[i].gen)}
                        : i \in 1..Len(g.tasks)}

\* some task inside generator g has been created and has not started yet
RECURSIVE HasCreated(_)
HasCreated(g) ==
    CASE g.g \in {"nogen", "none", "list"} -> FALSE
      [] g.g \in {"base", "norm"} -> HasCreated(g.up)
      [] g.g = "seq" -> HasCreated(g.inner)
      [] g.g = "par" ->
            \/ HasCreated(g.up)
            \/ \E i \in 1..Len(g.tasks) :
                  g.tasks[i].st = "created" \/ HasCreated(g.tasks[i].gen)

----------------------------------------------------------------------------
(* The caller: builds the pipeline, invokes it on the input and collects   *)
(* the output (processors/io.py collect).                                  *)

Build ==
    /\ status = "build"
    /\ LET b == Eval(expr) IN
       IF b.exc # NoExc
       THEN /\ status' = "raised"
            /\ raised' = b.exc
            /\ proc' = NoProc
       ELSE /\ status' = "ready"
            /\ raised' = NoExc
            /\ proc' = b.val
    /\ UNCHANGED <<expr, input, gen, out, hist, Image, pipeline, context>>

\* results = await collect(pipeline(StreamAdapter.from_items(input)))
Invoke ==
    /\ status = "ready"
    /\ gen' = Call(proc, from_items(input))
    /\ status' = "running"
    /\ UNCHANGED <<expr, input, proc, out, raised, hist, Image, pipeline, context>>

\* results = await collect(pipeline()): no input stream at all
InvokeNoStream ==
    /\ status = "ready"
    /\ input = <<>>
    /\ gen' = Call(proc, NoneStream)
    /\ status' = "running"
    /\ hist' = Append(hist, Event(-1, "nostream"))
    /\ UNCHANGED <<expr, input, proc, out, raised, Image, pipeline, context>>

\* one __anext__ of collect's "async for item in stream"
CallerNext ==
    /\ status = "running"
    /\ ~HasCreated(gen)
    /\ LET r == Next(gen) IN
       /\ gen' = r.g
       /\ CASE r.k = "item" ->
                 /\ out' = Append(out, r.v)
                 /\ UNCHANGED <<status, raised>>
            [] r.k = "stop" ->
                 /\ status' = "done"
                 /\ UNCHANGED <<out, raised>>
            [] r.k = "raise" ->
                 /\ status' = "raised"
                 /\ raised' = r.e
                 /\ UNCHANGED out
            [] r.k = "pending" ->
                 /\ r.g # gen
                 /\ UNCHANGED <<out, status, raised>>
    /\ UNCHANGED <<expr, input, proc, hist, Image, pipeline, context>>

\* the event loop runs one step of one branch task
TaskRun ==
    /\ gen # NoGen
    /\ \E s \in TaskSuccs(gen) : gen' = s.g /\ s.g # gen
    /\ UNCHANGED <<expr, input, proc, out, status, raised, hist, Image, pipeline, context>>

\* as TaskRun, with the production and completion events recorded in hist
TaskRunLogged ==
    /\ gen # NoGen
    /\ \E s \in TaskSuccs(gen) :
          /\ gen' = s.g
          /\ s.g # gen
          /\ hist' = hist \o s.evs
    /\ UNCHANGED <<expr, input, proc, out, status, raised, Image, pipeline, context>>

----------------------------------------------------------------------------
(* Processors and inputs the model is run on *)

upper == Leaf("UppercaseProcessor", TRUE, <<>>)
exclaim == Leaf("AddExclamationProcessor", TRUE, <<>>)
passthrough == Leaf("PassThroughProcessor", TRUE, <<>>)
prefix1 == Leaf("PrefixProcessor", TRUE, <<"1:">>)
prefix2 == Leaf("PrefixProcessor", TRUE, <<"2:">>)
prefix3 == Leaf("PrefixProcessor", TRUE, <<"3:">>)
\* a ChatProcessor whose API call never fails on the prompts used
chatOk == Leaf("ChatProcessor", TRUE, <<"never">>)
\* a ChatProcessor whose API call fails on prompt "b", with and without error isolation
chatIso == Leaf("ChatProcessor", TRUE, <<"b">>)
chatRaw == Leaf("ChatProcessor", FALSE, <<"b">>)
\* the entry point of a pipeline that is invoked without an input stream
source == Leaf("FromIterableProcessor", TRUE, <<"a">>)

SeqOfLen(S, n) == [1..n -> S]
SeqUpTo(S, n) == UNION {SeqOfLen(S, k) : k \in 0..n}

InputItems == {Str(<<"a">>), Str(<<"b">>), Bytes(<<"x">>)}
TextItems == {Str(<<"a">>), Str(<<"b">>)}

SeqPool == {upper, exclaim, prefix1, prefix2, passthrough, chatIso, chatRaw}

TriplePool == {upper, prefix1, prefix2, chatRaw}

SeqExprs ==
    {L(a) : a \in SeqPool}
    \cup {Plus(L(a), L(b)) : a \in SeqPool, b \in SeqPool}
    \cup {Plus(Plus(L(a), L(b)), L(c)) : a \in TriplePool, b \in TriplePool, c \in TriplePool}
    \cup {Plus(L(a), Plus(L(b), L(c))) : a \in TriplePool, b \in TriplePool, c \in TriplePool}
    \cup {Plus(Plus(L(prefix1), L(prefix2)), L(prefix3)),
          Plus(L(prefix1), Plus(L(prefix2), L(prefix3)))}

ParPool == <<L(chatOk), L(chatIso), L(chatOk), L(upper), L(chatOk)>>

ParExprs ==
    {Par(SubSeq(ParPool, 1, n)) : n \in 0..MaxBranches}
    \cup {Slashes(L(upper), L(exclaim)),
          Slashes(Plus(L(upper), L(exclaim)), L(passthrough)),
          Slashes(L(prefix1), L(prefix2)),
          Slashes(L(passthrough), L(passthrough)),
          Slashes(L(chatRaw), L(upper)),
          Slashes(L(chatRaw), L(chatOk)),
          Slashes(L(chatOk), L(chatRaw)),
          Slashes(L(chatIso), L(exclaim)),
          Slashes(Plus(L(prefix1), L(chatOk)), L(chatOk)),
          Par(<<L(chatOk), L(chatRaw), L(chatOk)>>),
          Par(<<L(upper), L(prefix1), L(prefix2)>>)}

InitWith(exprs, inputs) ==
    /\ expr \in exprs
    /\ input \in inputs
    /\ proc = NoProc
    /\ gen = NoGen
    /\ out = <<>>
    /\ status = "build"
    /\ raised = NoExc
    /\ hist = <<>>
    /\ Image = PIL
    /\ pipeline = NoPipeline
    /\ context = NoContext

\* sequential pipelines and single leaves
InitSeq == InitWith(SeqExprs, SeqUpTo(InputItems, MaxLen))

NextSeqOnly == Build \/ Invoke \/ CallerNext

SpecSeq == InitSeq /\ [][NextSeqOnly]_vars

\* parallel composites
Init == InitWith(ParExprs, SeqUpTo(TextItems, MaxParLen))

NextStep == Build \/ Invoke \/ CallerNext \/ TaskRun

Spec == Init /\ [][NextStep]_vars

\* parallel composites of two branches, with the order of task events recorded
\* The same runs under fair scheduling: the event loop runs every task that
\* is ready (a created task, a task whose API reply has arrived, the caller's
\* collect), and every API call is answered in the end
\* runs on which the event loop and the consumer are fair
MaxLiveLen == 2      \* longest input of these runs

\* composites whose branches all terminate without raising (the one failing
\* API call is under error isolation), and composites with a branch that
\* raises on prompt "b"
LiveExprs ==
    {Slashes(L(chatOk), L(chatOk)),
     Slashes(L(chatOk), L(upper)),
     Slashes(L(chatIso), L(exclaim)),
     Par(<<L(chatOk), L(upper), L(chatOk)>>),
     Slashes(L(chatRaw), L(chatOk)),
     Slashes(L(chatOk), L(chatRaw)),
     Par(<<L(chatOk), L(chatRaw), L(chatOk)>>)}

InitLive == InitWith(LiveExprs, SeqUpTo(TextItems, MaxLiveLen))

\* the enabling conditions of CallerNext and TaskRun, as state predicates
CallerCanStep ==
    /\ status = "running"
    /\ ~HasCreated(gen)
    /\ LET r == Next(gen) IN r.k = "pending" => r.g # gen

TaskCanRun == gen # NoGen /\ \E s \in TaskSuccs(gen) : s.g # gen

\* The program builds and invokes the pipeline, the consumer keeps iterating
\* and the event loop runs every task that is ready. Weak fairness of
\* CallerNext and of TaskRun is written out, with the enabling conditions above.
SpecLive ==
    /\ InitLive /\ [][NextStep]_vars
    /\ WF_vars(Build) /\ WF_vars(Invoke)
    /\ ([]<>~CallerCanStep \/ []<><<CallerNext>>_vars)
    /\ ([]<>~TaskCanRun \/ []<><<TaskRun>>_vars)

InitHist == InitWith({e \in ParExprs : e.op = "//"}, SeqUpTo(TextItems, MaxHistLen))

NextHist == Build \/ Invoke \/ CallerNext \/ TaskRunLogged

SpecHist == InitHist /\ [][NextHist]_vars

\* compositions of every shape: sequential, parallel and nestings of both,
\* fed str items and ready-made Packets, or no stream at all
MaxMixLen == 2

alice == [author |-> <<"alice">>]

MixItems ==
    {Str(<<"a">>), Str(<<"b">>), Packet(Str(<<"b">>), EmptyDict), Packet(Str(<<"b">>), alice)}

MixExprs ==
    {L(chatIso), L(chatRaw),
     Plus(L(upper), L(exclaim)),
     Plus(L(source), L(upper)),
     Plus(L(chatIso), L(passthrough)),
     Slashes(L(upper), L(exclaim)),
     Plus(L(prefix1), Slashes(L(chatOk), L(chatOk))),
     Plus(L(chatOk), Slashes(L(upper), L(passthrough))),
     Plus(Slashes(L(upper), L(chatRaw)), L(exclaim)),
     Slashes(Slashes(L(upper), L(exclaim)), L(passthrough)),
     Slashes(Plus(L(upper), L(chatIso)), L(chatRaw))}

InitMix == InitWith(MixExprs, SeqUpTo(MixItems, MaxMixLen))

NextMix == Build \/ Invoke \/ InvokeNoStream \/ CallerNext \/ TaskRun

SpecMix == InitMix /\ [][NextMix]_vars

----------------------------------------------------------------------------
(* Reuse: a composite is built once and invoked again after each stream     *)
(* has ended.  hist records the invocations that are over.                  *)

MaxRuns == 2         \* most invocations of one composite

ReuseExprs ==
    {Plus(L(upper), L(exclaim)),
     Plus(L(prefix1), Plus(L(upper), L(exclaim))),
     Plus(L(prefix1), Slashes(L(upper), L(exclaim))),
     Slashes(L(upper), L(exclaim)),
     Slashes(L(passthrough), L(passthrough)),
     Slashes(Plus(L(upper), L(exclaim)), L(prefix1)),
     Slashes(L(chatOk), L(chatOk)),
     Par(<<L(upper), L(prefix1), L(prefix2)>>)}

ReuseInputs ==
    {<<>>, <<Str(<<"a">>)>>, <<Str(<<"a">>), Str(<<"b">>)>>, <<Str(<<"b">>), Str(<<"a">>)>>}

InitReuse == InitWith(ReuseExprs, ReuseInputs)

\* mutant: the composite hands out the generator of its earlier invocation
InvokeAgainOnOldGenerator ==
    /\ status = "done"
    /\ Len(hist) < MaxRuns - 1
    /\ \E items \in ReuseInputs : input' = items
    /\ gen' = gen
    /\ hist' = Append(hist, [input |-> input, out |-> out])
    /\ out' = <<>>
    /\ status' = "running"
    /\ UNCHANGED <<expr, proc, raised, Image, pipeline, context>>

\* results = await collect(pipeline(StreamAdapter.from_items(items))), once more
\* on the same pipeline object
InvokeAgain ==
    /\ status = "done"
    /\ Len(hist) < MaxRuns - 1
    /\ \E items \in ReuseInputs :
          /\ input' = items
          /\ gen' = Call(proc, from_items(items))
    /\ hist' = Append(hist, [input |-> input, out |-> out])
    /\ out' = <<>>
    /\ status' = "running"
    /\ UNCHANGED <<expr, proc, raised, Image, pipeline, context>>

NextReuse == Build \/ Invoke \/ CallerNext \/ TaskRun \/ InvokeAgain

SpecReuse == InitReuse /\ [][NextReuse]_vars

----------------------------------------------------------------------------
(* Filtering: FilterProcessor on its own, fed packets that carry substream  *)
(* names, and the pipelines of its docstring, which route the output of a   *)
(* parallel composite or drop the error packets of a processor.            *)

MaxFilterLen == 2    \* longest input of a filter pipeline

branch_0 == <<"branch_", "0">>
branch_1 == <<"branch_", "1">>
error == <<"error">>

Includes == {None, Str(branch_0), List(<<branch_0, branch_1>>), List(<<>>)}
Excludes == {None, Str(error), List(<<error, branch_1>>)}

FilterLeaves == {L(FilterProcessor(i, e)) : i \in Includes, e \in Excludes}

\* packets as they arrive at a filter: untagged, tagged by name, or error packets
TaggedItems ==
    {Packet(Str(<<"a">>), EmptyDict),
     Packet(Str(<<"a">>), [mimetype |-> <<"text/plain">>]),
     from_text(<<"a">>, [substream_name |-> branch_0]),
     from_text(<<"b">>, [substream_name |-> branch_1]),
     from_text(<<"api failed">>, [substream_name |-> error, error_type |-> <<"APIError">>])}

\* pipeline = parallel_proc + FilterProcessor(include="branch_0") + next_proc
parallel_proc == Slashes(L(upper), L(exclaim))
filter_proc == FilterProcessor(Str(branch_0), None)
next_proc == passthrough

\* pipeline = processor + FilterProcessor(exclude="error") + next_processor
no_errors == FilterProcessor(None, Str(error))
next_processor == passthrough

RoutingExprs ==
    {Plus(Plus(parallel_proc, L(filter_proc)), L(next_proc)),
     Plus(Plus(parallel_proc, L(FilterProcessor(Str(BranchTag(0, upper)), None))), L(next_proc)),
     Plus(Plus(Slashes(L(chatIso), L(upper)), L(no_errors)), L(next_processor))}
    \cup {Plus(Plus(L(processor), L(no_errors)), L(next_processor))
            : processor \in {chatIso, chatOk, upper, passthrough}}

InitFilter ==
    \/ InitWith(FilterLeaves, SeqUpTo(TaggedItems, MaxFilterLen))
    \/ InitWith(RoutingExprs, SeqUpTo(InputItems, MaxFilterLen))

NextFilter == Build \/ Invoke \/ CallerNext \/ TaskRun

SpecFilter == InitFilter /\ [][NextFilter]_vars

----------------------------------------------------------------------------
(* Packets on their own: a packet is constructed, then with_metadata is     *)
(* called on it and on the packets derived from it.                         *)

MaxCalls == 2        \* most with_metadata calls in a run

bob == [author |-> <<"bob">>]

Contents == {Str(<<"a">>), Bytes(<<"x">>), Img(<<"i">>)}

Metadatas == {EmptyDict, alice, [mimetype |-> <<"application/pdf">>]}

Kwargs == {EmptyDict, bob, [substream_name |-> <<"branch_1">>],
           [author |-> <<"bob">>, mimetype |-> <<"text/html">>]}

\* the constructor calls: each classmethod on the content type it is declared
\* for, and Packet(content=..., metadata=...) on every declared content type
PacketExprs ==
    {[op |-> "from_text", content |-> Str(<<"a">>), metadata |-> m] : m \in Metadatas}
    \cup {[op |-> "from_bytes", content |-> Bytes(<<"x">>), metadata |-> m] : m \in Metadatas}
    \cup {[op |-> "from_image", content |-> Img(<<"i">>), metadata |-> m] : m \in Metadatas}
    \cup {[op |-> "Packet", content |-> c, metadata |-> m] : c \in Contents, m \in Metadatas}

\* the constructor call expr: [exc, val]
Construct(e) ==
    CASE e.op = "from_text" -> [exc |-> NoExc, val |-> from_text(e.content.val, e.metadata)]
      [] e.op = "from_bytes" -> [exc |-> NoExc, val |-> from_bytes(e.content.val, e.metadata)]
      [] e.op = "from_image" -> from_image(e.content, e.metadata)
      [] e.op = "Packet" -> [exc |-> NoExc, val |-> Packet(e.content, e.metadata)]

\* a PIL image exists only where PIL does
InitPacket ==
    /\ Image \in {PIL, NoneVal}
    /\ pipeline = NoPipeline
    /\ context = NoContext
    /\ expr \in PacketExprs
    /\ (expr.op = "Packet" /\ expr.content.type = "image") => Image = PIL
    /\ input = <<>>
    /\ proc = NoProc
    /\ gen = NoGen
    /\ out = <<>>
    /\ status = "build"
    /\ raised = NoExc
    /\ hist = <<>>

\* packet = Packet.from_text(...), Packet.from_bytes(...), ...
NewPacket ==
    /\ status = "build"
    /\ LET c == Construct(expr) IN
       IF c.exc # NoExc
       THEN /\ status' = "raised"
            /\ raised' = c.exc
            /\ out' = out
       ELSE /\ status' = "packet"
            /\ raised' = NoExc
            /\ out' = <<c.val>>
    /\ UNCHANGED <<expr, input, proc, gen, hist, Image, pipeline, context>>

\* new_packet = packet.with_metadata(**kwargs), on any packet made so far
WithMetadata ==
    /\ status = "packet"
    /\ Len(hist) < MaxCalls
    /\ \E i \in 1..Len(out), kwargs \in Kwargs :
          /\ out' = Append(out, with_metadata(out[i], kwargs))
          /\ hist' = Append(hist, [of |-> i, kwargs |-> kwargs])
    /\ UNCHANGED <<expr, input, proc, gen, status, raised, Image, pipeline, context>>

NextPacket == NewPacket \/ WithMetadata

SpecPacket == InitPacket /\ [][NextPacket]_vars

----------------------------------------------------------------------------
(* The context-based draft: Context (core/context.py), Processor and       *)
(* ProcessingResult (core/base.py), SequentialPipeline and ParallelPipeline *)
(* (core/pipeline.py).  Processor names and context keys are strings;       *)
(* values and messages are token sequences.  Of a ProcessingResult only     *)
(* status, data and error are kept.                                         *)

MaxProcessors == 3   \* most processors in a pipeline

\* Context(initial_data)
Context(initial_data) == [data |-> initial_data, history |-> <<>>]

\* Context.has / get / set
has(ctx, key) == key \in DOMAIN ctx.data
get(ctx, key) == IF key \in DOMAIN ctx.data THEN ctx.data[key] ELSE NoneVal
set(ctx, key, value) ==
    [ctx EXCEPT !.data = [k \in (DOMAIN ctx.data) \cup {key} |->
                            IF k = key THEN value ELSE ctx.data[k]]]

\* Context.add_to_history
add_to_history(ctx, processor_name) ==
    [ctx EXCEPT !.history = Append(@, processor_name)]

\* ProcessingResult(status=..., data=..., error=...)
ProcessingResult(st, data, err) == [status |-> st, data |-> data, error |-> err]

NoResult == ProcessingResult("PENDING", NoneVal, NoExc)

\* Processors.  awaits: process() awaits something before it returns, so that
\* other tasks run in between (no processor of the repository does; a
\* processor that calls a real API would).
CoreProcessor(cls, name, should_fail, input_key, output_key, prompt, awaits) ==
    [cls |-> cls, name |-> name, should_fail |-> should_fail, input_key |-> input_key,
     output_key |-> output_key, prompt |-> prompt, awaits |-> awaits]

\* tests/test_base.py
MockProcessor(name, should_fail) ==
    CoreProcessor("MockProcessor", name, should_fail, "", "mock_output", <<>>, FALSE)

\* tests/test_pipeline.py: passes validation, process returns FAILED
FailingProcessor ==
    CoreProcessor("FailingProcessor", "MockProcessor", FALSE, "", "", <<>>, FALSE)

\* core/processors.py
PromptProcessor(prompt) ==
    CoreProcessor("PromptProcessor", "PromptProcessor", FALSE, "", "prompt", prompt, FALSE)

LLMProcessor ==
    CoreProcessor("LLMProcessor", "LLMProcessor", FALSE, "prompt", "llm_response", <<>>, FALSE)

\* a processor whose process() raises
RaisingProcessor ==
    CoreProcessor("RaisingProcessor", "RaisingProcessor", FALSE, "", "", <<>>, FALSE)

\* a processor whose process() awaits, then returns its name as data
\* (should_fail: then raises instead)
SlowProcessor(name, should_fail) ==
    CoreProcessor("SlowProcessor", name, should_fail, "", "", <<>>, TRUE)

\* Processor.validate_input
validate_input(p, ctx) ==
    CASE p.cls = "MockProcessor" -> ~p.should_fail
      [] p.cls = "LLMProcessor" -> has(ctx, p.input_key)
      [] OTHER -> TRUE

\* LLMProcessor._generate_mock_response (the branch for prompts without "API")
generate_mock_response(prompt) == <<"mock answer about '">> \o prompt \o <<"'">>

Returns(result, ctx) == [kind |-> "return", result |-> result, exc |-> NoExc, ctx |-> ctx]
Raises(e, ctx) == [kind |-> "raise", result |-> NoResult, exc |-> e, ctx |-> ctx]

\* Processor.process: what it returns or raises, and the context it leaves
process(p, ctx) ==
    CASE p.cls = "MockProcessor" ->
            IF p.should_fail
            THEN Returns(ProcessingResult("FAILED", NoneVal,
                                          Exc("RuntimeError", <<"Mock processor failed">>)), ctx)
            ELSE Returns(ProcessingResult("COMPLETED", <<"mock_result">>, NoExc),
                         set(ctx, "mock_output", <<"processed">>))
      [] p.cls = "FailingProcessor" ->
            Returns(ProcessingResult("FAILED", NoneVal,
                                     Exc("RuntimeError", <<"Processing failed">>)), ctx)
      [] p.cls = "PromptProcessor" ->
            Returns(ProcessingResult("COMPLETED", p.prompt, NoExc),
                    set(ctx, p.output_key, p.prompt))
      [] p.cls = "LLMProcessor" ->
            LET prompt == get(ctx, p.input_key) IN
            IF prompt = NoneVal \/ prompt = <<>>
            THEN Returns(ProcessingResult("FAILED", NoneVal,
                             Exc("ValueError", <<"No data found for input key '", p.input_key,
                                                 "' in context">>)), ctx)
            ELSE Returns(ProcessingResult("COMPLETED", generate_mock_response(prompt), NoExc),
                         set(ctx, p.output_key, generate_mock_response(prompt)))
      [] p.cls = "RaisingProcessor" ->
            Raises(Exc("RuntimeError", <<"boom">>), ctx)
      [] p.cls = "SlowProcessor" ->
            IF p.should_fail THEN Raises(Exc("RuntimeError", <<p.name, " failed">>), ctx)
            ELSE Returns(ProcessingResult("COMPLETED", <<p.name>>, NoExc), ctx)

\* the FAILED result both pipelines make for a processor whose validation fails
InvalidInput(p) ==
    ProcessingResult("FAILED", NoneVal,
                     Exc("ValueError", <<"Invalid input for processor ", p.name>>))

\* the FAILED result both pipelines make for an exception
Failed(e) == ProcessingResult("FAILED", NoneVal, e)

Call_(op, i) == [op |-> op, i |-> i]

\* SequentialPipeline(processors=...), ParallelPipeline().add_processors(...)
\* and the arguments of the execute() call to come
NewPipeline(cls, processors, stop_on_error) ==
    [cls |-> cls, processors |-> processors, stop_on_error |-> stop_on_error,
     pc |-> "new", i |-> 1, results |-> <<>>, ret |-> <<>>, calls |-> <<>>,
     tasks |-> <<>>, order |-> <<>>]

\* mutant: the loop goes on whatever stop_on_error says
BreaksOnNever(result, stop_on_error) == FALSE

\* mutant: the loop ends at any failure, whatever stop_on_error says
BreaksOnAnyFailure(result, stop_on_error) == result.status = "FAILED"

\* "if stop_on_error: break" after a FAILED result was appended
BreaksOn(result, stop_on_error) == result.status = "FAILED" /\ stop_on_error

\* mutant: the processor is recorded before its input is validated
RecordHistoryAlways(ctx, p, valid) == add_to_history(ctx, p.name)

\* "context.add_to_history(processor.name)", reached only past the validation
RecordHistory(ctx, p, valid) == IF valid THEN add_to_history(ctx, p.name) ELSE ctx

\* one iteration of the for loop of SequentialPipeline.execute: [pipeline, context]
SequentialIteration(pl, ctx) ==
    LET p == pl.processors[pl.i]
        valid == validate_input(p, ctx)
        ctx1 == RecordHistory(ctx, p, valid)
        o == process(p, ctx1)
        result == IF ~valid THEN InvalidInput(p)
                  ELSE IF o.kind = "raise" THEN Failed(o.exc) ELSE o.result
        calls == Append(pl.calls, Call_("validate", pl.i))
                 \o (IF valid THEN <<Call_("process", pl.i)>> ELSE <<>>)
    IN [pipeline |-> [pl EXCEPT !.results = Append(@, result),
                                !.calls = calls,
                                !.i = @ + 1,
                                !.pc = IF BreaksOn(result, pl.stop_on_error)
                                       THEN "break" ELSE "loop"],
        context |-> IF valid THEN o.ctx ELSE ctx1]

\* results = await pipeline.execute(context, stop_on_error): the call
Execute ==
    /\ pipeline.cls = "SequentialPipeline"
    /\ pipeline.pc = "new"
    /\ pipeline' = [pipeline EXCEPT !.pc = "loop"]
    /\ UNCHANGED <<expr, input, proc, gen, out, status, raised, hist, Image, context>>

\* SequentialPipeline.execute: one iteration of "for processor in self._processors"
ExecuteIteration ==
    /\ pipeline.cls = "SequentialPipeline"
    /\ pipeline.pc = "loop"
    /\ pipeline.i <= Len(pipeline.processors)
    /\ LET n == SequentialIteration(pipeline, context) IN
       /\ pipeline' = n.pipeline
       /\ context' = n.context
    /\ UNCHANGED <<expr, input, proc, gen, out, status, raised, hist, Image>>

\* SequentialPipeline.execute: "return results", after a break or the last iteration
ExecuteReturn ==
    /\ pipeline.cls = "SequentialPipeline"
    /\ \/ pipeline.pc = "break"
       \/ pipeline.pc = "loop" /\ pipeline.i > Len(pipeline.processors)
    /\ pipeline' = [pipeline EXCEPT !.pc = "returned", !.ret = pipeline.results]
    /\ UNCHANGED <<expr, input, proc, gen, out, status, raised, hist, Image, context>>

\* "Validate all processors first": the validate_input calls made, and whether
\* the loop returned early (a validation failed and stop_on_error is set)
RECURSIVE ValidateAll(_, _, _, _)
ValidateAll(pl, ctx, i, calls) ==
    IF i > Len(pl.processors) THEN [calls |-> calls, failed |-> 0]
    ELSE IF ~validate_input(pl.processors[i], ctx) /\ pl.stop_on_error
    THEN [calls |-> Append(calls, Call_("validate", i)), failed |-> i]
    ELSE ValidateAll(pl, ctx, i + 1, Append(calls, Call_("validate", i)))

NewCoroutine == [st |-> "created", kind |-> "none", result |-> NoResult, exc |-> NoExc]

\* ParallelPipeline.execute up to "await asyncio.gather(...)"
ParallelExecute ==
    /\ pipeline.cls = "ParallelPipeline"
    /\ pipeline.pc = "new"
    /\ LET v == ValidateAll(pipeline, context, 1, <<>>) IN
       IF v.failed # 0
       THEN pipeline' = [pipeline EXCEPT !.calls = v.calls, !.pc = "returned",
                            !.ret = <<InvalidInput(pipeline.processors[v.failed])>>]
       ELSE pipeline' = [pipeline EXCEPT !.calls = v.calls, !.pc = "gather",
                            !.tasks = [i \in 1..Len(pipeline.processors) |-> NewCoroutine]]
    /\ UNCHANGED <<expr, input, proc, gen, out, status, raised, hist, Image, context>>

\* mutant: every task is handed a copy of the context, and the caller's stays
\* as it was
AfterProcessOnCopy(ctx, written) == ctx

\* "self._execute_processor_with_timeout(processor, context)": every task is
\* handed the caller's Context object itself, so what process() wrote is in
\* the context the other tasks and the caller read
AfterProcess(ctx, written) == written

\* a task of gather takes a step: it starts _execute_processor_with_timeout
\* (tasks start in index order) and runs process() to its await or its end, or
\* it is resumed after its await and runs to its end
ParallelTask ==
    /\ pipeline.cls = "ParallelPipeline"
    /\ pipeline.pc = "gather"
    /\ \E i \in 1..Len(pipeline.tasks) :
          LET t == pipeline.tasks[i]
              p == pipeline.processors[i]
              o == process(p, context)
              done == [st |-> "done", kind |-> o.kind, result |-> o.result, exc |-> o.exc]
          IN
          \/ /\ t.st = "created"
             /\ \A j \in 1..(i - 1) : pipeline.tasks[j].st # "created"
             /\ IF p.awaits
                THEN /\ pipeline' = [pipeline EXCEPT !.tasks[i].st = "suspended",
                                        !.calls = Append(@, Call_("process", i))]
                     /\ UNCHANGED context
                ELSE /\ pipeline' = [pipeline EXCEPT !.tasks[i] = done,
                                        !.order = Append(@, i),
                                        !.calls = Append(@, Call_("process", i))]
                     /\ context' = AfterProcess(context, o.ctx)
          \/ /\ t.st = "suspended"
             /\ \A j \in 1..Len(pipeline.tasks) : pipeline.tasks[j].st # "created"
             /\ pipeline' = [pipeline EXCEPT !.tasks[i] = done, !.order = Append(@, i)]
             /\ context' = AfterProcess(context, o.ctx)
    /\ UNCHANGED <<expr, input, proc, gen, out, status, raised, hist, Image>>

\* mutant: the results are listed in the order the tasks completed
gatherInCompletionOrder(tasks, order) == [k \in 1..Len(order) |-> tasks[order[k]]]

\* asyncio.gather(*tasks, return_exceptions=True): the tasks' outcomes in the
\* order of the arguments
gather(tasks, order) == tasks

\* "Convert exceptions to ProcessingResults"
Convert(o) == IF o.kind = "raise" THEN Failed(o.exc) ELSE o.result

RECURSIVE AddAllToHistory(_, _, _)
AddAllToHistory(ctx, processors, i) ==
    IF i > Len(processors) THEN ctx
    ELSE AddAllToHistory(add_to_history(ctx, processors[i].name), processors, i + 1)

\* ParallelPipeline.execute from the return of gather to "return processed_results"
ParallelReturn ==
    /\ pipeline.cls = "ParallelPipeline"
    /\ pipeline.pc = "gather"
    /\ \A i \in 1..Len(pipeline.tasks) : pipeline.tasks[i].st = "done"
    /\ LET results == gather(pipeline.tasks, pipeline.order) IN
       pipeline' = [pipeline EXCEPT !.pc = "returned",
                       !.ret = [k \in 1..Len(results) |-> Convert(results[k])]]
    /\ context' = AddAllToHistory(context, pipeline.processors, 1)
    /\ UNCHANGED <<expr, input, proc, gen, out, status, raised, hist, Image>>

SequentialPool ==
    {MockProcessor("P1", FALSE), MockProcessor("Fail", TRUE), FailingProcessor,
     PromptProcessor(<<"hi">>), PromptProcessor(<<>>), LLMProcessor, RaisingProcessor}

ParallelPool ==
    {MockProcessor("Success", FALSE), MockProcessor("Fail", TRUE),
     PromptProcessor(<<"hi">>), LLMProcessor,
     RaisingProcessor, SlowProcessor("S1", FALSE), SlowProcessor("S2", TRUE)}

InitialData == {EmptyDict, [initial |-> <<"data">>]}

InitPipeline ==
    /\ expr = [op |-> "none"]
    /\ input = <<>>
    /\ proc = NoProc
    /\ gen = NoGen
    /\ out = <<>>
    /\ status = "pipeline"
    /\ raised = NoExc
    /\ hist = <<>>
    /\ Image = PIL
    /\ \E stop_on_error \in BOOLEAN :
          \/ \E ps \in SeqUpTo(SequentialPool, MaxProcessors) :
                pipeline = NewPipeline("SequentialPipeline", ps, stop_on_error)
          \/ \E ps \in SeqUpTo(ParallelPool, MaxProcessors) :
                pipeline = NewPipeline("ParallelPipeline", ps, stop_on_error)
    /\ \E initial_data \in InitialData : context = Context(initial_data)

NextPipeline ==
    Execute \/ ExecuteIteration \/ ExecuteReturn
    \/ ParallelExecute \/ ParallelTask \/ ParallelReturn

SpecPipeline == InitPipeline /\ [][NextPipeline]_vars

----------------------------------------------------------------------------
(* Parallel composites whose branches yield packets that already carry a *)
(* substream_name: error packets, tagged input, nested composites        *)

MaxTagLen == 2       \* longest input of these composites

mine == <<"mine">>

TagItems == {Str(<<"a">>), Str(<<"b">>), from_text(<<"a">>, [substream_name |-> mine])}

TagExprs ==
    {Slashes(L(chatIso), L(passthrough)),
     Slashes(L(passthrough), L(upper)),
     Slashes(Slashes(L(upper), L(exclaim)), L(passthrough)),
     Slashes(Slashes(L(chatIso), L(upper)), L(exclaim)),
     Slashes(Slashes(L(passthrough), L(exclaim)), L(exclaim)),
     Par(<<L(chatIso), L(passthrough), L(upper)>>)}

InitTags == InitWith(TagExprs, SeqUpTo(TagItems, MaxTagLen))

NextTags == Build \/ Invoke \/ CallerNext \/ TaskRun

SpecTags == InitTags /\ [][NextTags]_vars

----------------------------------------------------------------------------
(* One leaf processor with and without handle_errors *)

upperRaw == Leaf("UppercaseProcessor", FALSE, <<>>)
numbering == Leaf("NumberingProcessor", TRUE, <<>>)
numberingRaw == Leaf("NumberingProcessor", FALSE, <<>>)
no_errorsRaw == [no_errors EXCEPT !.handle_errors = FALSE]
prefix1Raw == Leaf("PrefixProcessor", FALSE, <<"1:">>)

\* SplitProcessor with 0, 1 and 2 parts
split0 == Leaf("SplitProcessor", TRUE, <<>>)
split1 == Leaf("SplitProcessor", TRUE, <<"1">>)
split2 == Leaf("SplitProcessor", TRUE, <<"1", "2">>)
split2Raw == Leaf("SplitProcessor", FALSE, <<"1", "2">>)

GranularityLeaves ==
    {upper, upperRaw, numbering, numberingRaw, chatIso, chatRaw,
     no_errors, no_errorsRaw, prefix1, prefix1Raw,
     split0, split1, split2, split2Raw}

InitGranularity ==
    InitWith({L(p) : p \in GranularityLeaves},
             SeqUpTo(InputItems \cup {from_text(<<"e">>, [substream_name |-> error])}, MaxLen))

NextGranularity == Build \/ Invoke \/ CallerNext

SpecGranularity == InitGranularity /\ [][NextGranularity]_vars

----------------------------------------------------------------------------
(* Claims *)

IsParCtor == expr.op = "ParallelProcessor"

\* the packets of the caller's input stream
InputPackets == from_items(input).items

Built == status # "build"

----------------------------------------------------------------------------
(* Claims about sequential pipelines and single leaves (SpecSeq) *)

\* the pure 1:1 order-preserving leaf processors of the tests
PureLeaves == {upper, exclaim, prefix1, prefix2, prefix3, passthrough}

\* the one packet a pure 1:1 leaf makes of packet x
LeafFn(p, x) == ProcessPacket(p, x).out[1]

IsPurePair == expr.op = "+" /\ expr.l.op = "leaf" /\ expr.r.op = "leaf"
              /\ expr.l.p \in PureLeaves /\ expr.r.p \in PureLeaves

\* C1: for pure 1:1 leaves a and b and any input [x1..xn], (a + b) yields exactly
\* n packets and the k-th has content b(a(xk)); what has been yielded so far is
\* always the first outputs in input order.  ['a','b'] through
\* uppercase + exclaim gives ['A!','B!'].
C1_SequentialOrder ==
    IsPurePair =>
        /\ Len(out) <= Len(input)
        /\ \A k \in 1..Len(out) :
              /\ IsPacket(out[k])
              /\ out[k].content = LeafFn(expr.r.p, LeafFn(expr.l.p, to_packet(input[k]))).content
        /\ status = "done" => Len(out) = Len(input)
        /\ status # "raised"
        /\ (status = "done" /\ expr = Plus(L(upper), L(exclaim))
              /\ input = <<Str(<<"a">>), Str(<<"b">>)>>)
           => (out[1].content = Str(<<"A", "!">>) /\ out[2].content = Str(<<"B", "!">>))

C1_Witness ==
    /\ IsPurePair /\ expr.l.p = prefix1 /\ expr.r.p = prefix2
    /\ status = "done" /\ Len(input) = 3 /\ Len(out) = 3
    /\ out[3].content = Str(<<"2:", "1:">> \o input[3].val)

Finished == status \in {"done", "raised"}

IsPrefix(a, b) == Len(a) <= Len(b) /\ SubSeq(b, 1, Len(a)) = a

IsErrorPacket(x) ==
    /\ IsPacket(x)
    /\ substream_name(x) = <<"error">>
    /\ "error_type" \in DOMAIN x.metadata

FailingItem == Str(<<"b">>)

FailsOnce == Cardinality({k \in 1..Len(input) : input[k] = FailingItem}) = 1

\* C4: a leaf with error handling enabled that raises on exactly one input item
\* yields exactly one error-tagged packet, in the place of the failing item, and
\* the normal output for every other item before and after it; the exception
\* never reaches the caller and the stream runs to its normal end.
C4_ErrorIsolation ==
    (expr = L(chatIso) /\ FailsOnce) =>
        /\ status # "raised"
        /\ Len(out) <= Len(input)
        /\ \A j \in 1..Len(out) :
              IF input[j] = FailingItem
              THEN /\ IsErrorPacket(out[j])
                   /\ out[j].content = Str(ApiError.msg)
                   /\ out[j].metadata["error_type"] = <<ApiError.type>>
              ELSE /\ ~IsErrorPacket(out[j])
                   /\ out[j] = LeafFn(chatIso, to_packet(input[j]))
        /\ status = "done" => Len(out) = Len(input)

C4_Witness ==
    /\ expr = L(chatIso)
    /\ input = <<Str(<<"a">>), FailingItem, Str(<<"a">>)>>
    /\ status = "done"
    /\ IsErrorPacket(out[2]) /\ ~IsErrorPacket(out[1]) /\ ~IsErrorPacket(out[3])

IsLeftNested ==
    /\ expr.op = "+" /\ expr.l.op = "+" /\ expr.r.op = "leaf"
    /\ expr.l.l.op = "leaf" /\ expr.l.r.op = "leaf"

\* a + (b + c) for the expression (a + b) + c
Regroup(e) == Plus(e.l.l, Plus(e.l.r, e.r))

\* C8: (a + b) + c and a + (b + c) yield identical output sequences on the same
\* input: same length, order, content and metadata of every packet (and the
\* same exception, if a stage raises); prefixes '1:' + '2:' + '3:' turn 'a'
\* into '3:2:1:a' under either grouping.
C8_Associativity ==
    IsLeftNested =>
        LET o == collect(Call(Eval(Regroup(expr)).val, from_items(input))) IN
        /\ IsPrefix(out, o.out)
        /\ Finished => (out = o.out /\ raised = o.exc)
        /\ (status = "done" /\ expr = Plus(Plus(L(prefix1), L(prefix2)), L(prefix3))
              /\ input = <<Str(<<"a">>)>>)
           => (out = <<from_text(<<"3:", "2:", "1:", "a">>, EmptyDict)>>
               /\ o.out = out)

C8_Witness ==
    /\ expr = Plus(Plus(L(prefix1), L(prefix2)), L(prefix3))
    /\ status = "done" /\ Len(input) = 2 /\ Len(out) = 2
    /\ out[2].content = Str(<<"3:", "2:", "1:">> \o input[2].val)


\* the stream a generator ultimately reads: the caller's input stream
RECURSIVE Source(_)
Source(g) ==
    CASE g.g \in {"none", "list"} -> g
      [] g.g \in {"base", "norm", "par"} -> Source(g.up)
      [] g.g = "seq" -> Source(g.inner)

IsChain == expr.op = "+"

\* C12: a + b streams item by item: the pipeline reads the caller's input
\* stream itself and is never more than one item ahead of what it has
\* yielded, so the output derived from item k is yielded before item k+1 is
\* requested; first's outputs are never all buffered before second starts.
C12_LazyStreaming ==
    (IsChain /\ gen # NoGen) =>
        LET s == Source(gen) IN
        /\ s.items = from_items(input).items
        /\ s.pos <= Len(out) + 1
        /\ s.pos >= Len(out)
        /\ status = "done" => (s.pos = Len(input) /\ Len(out) = Len(input))

C12_Witness ==
    /\ expr = Plus(L(upper), L(exclaim)) /\ Len(input) = 3
    /\ status = "running" /\ Len(out) = 1 /\ Source(gen).pos = 1
    /\ out[1].content = Str(Upper(input[1].val) \o <<"!">>)

\* what leaf p makes of packet x: the packets it yields and the exception
\* that leaves it (NoExc when it is converted to an error packet)
Through(p, x) ==
    LET t == ProcessPacket(p, x) IN
    IF t.exc # NoExc /\ p.handle_errors
    THEN [out |-> t.out \o <<ErrorPacket(t.exc, x)>>, exc |-> NoExc]
    ELSE t

IsPair == expr.op = "+" /\ expr.l.op = "leaf" /\ expr.r.op = "leaf"

\* what a + b makes of packet x, for per-packet leaves a and b
ThroughPair(x) ==
    LET ra == Through(expr.l.p, x) IN
    IF ra.exc # NoExc THEN ra ELSE Through(expr.r.p, ra.out[1])

\* the input items (by position) on which a child of a + b raises
PairFailures == {k \in 1..Len(input) : ThroughPair(InputPackets[k]).exc # NoExc}

HasRawChild == ~expr.l.p.handle_errors \/ ~expr.r.p.handle_errors

\* C13: a + b handles no errors itself: when a child with handle_errors=False
\* raises, first or second, the same exception reaches the caller of the
\* composite at the first item that fails, after exactly the outputs of the
\* items before it have been yielded; the stream ends normally only if no
\* item fails, and nothing is ever yielded for or after the failing item.
C13_SequentialPropagates ==
    (IsPair /\ HasRawChild) =>
        /\ \A k \in PairFailures : Len(out) < k
        /\ \A j \in 1..Len(out) : out[j] = ThroughPair(InputPackets[j]).out[1]
        /\ status = "raised" =>
              /\ PairFailures # {}
              /\ \A k \in PairFailures : Len(out) + 1 <= k
              /\ Len(out) + 1 \in PairFailures
              /\ raised = ThroughPair(InputPackets[Len(out) + 1]).exc
              /\ raised = ApiError
        /\ status = "done" => (PairFailures = {} /\ Len(out) = Len(input))

\* second raises on the third item, after the outputs of the first two
C13_Witness ==
    /\ IsPair /\ expr.l.p = passthrough /\ expr.r.p = chatRaw
    /\ input = <<Str(<<"a">>), Bytes(<<"x">>), Str(<<"b">>)>>
    /\ status = "raised" /\ raised = ApiError /\ Len(out) = 2

\* the first input item on which the API call of chatRaw fails (0: none)
FirstFailure ==
    IF \E k \in 1..Len(input) : input[k] = FailingItem
    THEN CHOOSE k \in 1..Len(input) :
            input[k] = FailingItem /\ \A j \in 1..(k - 1) : input[j] # FailingItem
    ELSE 0

\* C14: with handle_errors=False the exception the transform raises on the
\* k-th packet reaches the caller as it was raised; the outputs of packets
\* 1..k-1 have been yielded before, no error packet is ever yielded, and the
\* input stream is never read beyond the k-th packet.
C14_NoIsolation ==
    expr = L(chatRaw) =>
        /\ \A j \in 1..Len(out) :
              /\ ~IsErrorPacket(out[j])
              /\ out[j] = LeafFn(chatRaw, InputPackets[j])
        /\ FirstFailure # 0 =>
              /\ Len(out) < FirstFailure
              /\ gen # NoGen => Source(gen).pos <= FirstFailure
              /\ status # "done"
        /\ status = "raised" =>
              /\ FirstFailure # 0
              /\ raised = ApiError
              /\ Len(out) = FirstFailure - 1
              /\ Source(gen).pos = FirstFailure
        /\ status = "done" => Len(out) = Len(input)

C14_Witness ==
    /\ expr = L(chatRaw)
    /\ input = <<Str(<<"a">>), FailingItem, Str(<<"a">>)>>
    /\ status = "raised" /\ raised = ApiError
    /\ Len(out) = 1 /\ Source(gen).pos = 2

----------------------------------------------------------------------------
(* Claims about parallel composites (Spec, SpecHist) *)

IsPar == proc.node = "par"

\* what branch i (1-based) yields when run alone on the full input
Alone(i) == collect(Call(proc.processors[i], ListStream(InputPackets)))

TagOf(i) == BranchTag(i - 1, proc.processors[i])

\* branch i's own output sequence, each packet stamped with the branch's tag
Stamped(i) ==
    LET alone == Alone(i).out IN
    [k \in 1..Len(alone) |-> TagResult(alone[k], i - 1, proc.processors[i])]

\* the yielded packets that carry branch i's tag, in the order yielded
Group(i) == SelectSeq(out, LAMBDA x : IsPacket(x) /\ substream_name(x) = TagOf(i))

RECURSIVE SumLen(_, _)
SumLen(f, n) == IF n = 0 THEN 0 ELSE Len(f[n]) + SumLen(f, n - 1)

RECURSIVE Concat(_, _)
Concat(f, n) == IF n = 0 THEN <<>> ELSE Concat(f, n - 1) \o f[n]

Branches == 1..Len(proc.processors)

\* C2: when the stream of a ParallelProcessor of N branches ends, the number
\* of packets yielded is the sum over the branches of the number of outputs
\* that branch produces when run alone on the full input (3 inputs through two
\* 1:1 branches give 6 outputs).
C2_FanOutComplete ==
    (IsPar /\ status = "done") =>
        /\ Len(out) = SumLen([i \in Branches |-> Alone(i).out], Len(proc.processors))
        /\ (expr = Slashes(L(upper), L(exclaim)) /\ Len(input) = 3) => Len(out) = 6

C2_Witness ==
    /\ IsPar /\ status = "done" /\ Len(proc.processors) = 3 /\ Len(input) = 2
    /\ Len(out) = 6

\* C3: every packet yielded by a parallel composite carries a non-null
\* substream_name that is the tag of exactly one branch, distinct branches have
\* distinct tags, and the yielded packets carrying a branch's tag are that
\* branch's own output sequence (stamped with the tag) in its production
\* order: a prefix of it while the stream runs, all of it when the stream ends.
C3_SubstreamTagging ==
    IsPar =>
        /\ \A k \in 1..Len(out) :
              /\ IsPacket(out[k])
              /\ substream_name(out[k]) # NoneVal
              /\ Cardinality({i \in Branches : substream_name(out[k]) = TagOf(i)}) = 1
        /\ \A i, j \in Branches : i # j => TagOf(i) # TagOf(j)
        /\ \A i \in Branches :
              LET stamped == Stamped(i)
                  group == Group(i)
              IN /\ IsPrefix(group, stamped)
                 /\ status = "done" => group = stamped

C3_Witness ==
    /\ IsPar /\ status = "done" /\ Len(proc.processors) = 3 /\ Len(input) = 2
    /\ Len(Group(2)) = 2 /\ Len(Group(3)) = 2
    /\ proc.processors[2].cls = proc.processors[3].cls

\* C6: the output stream of a ParallelProcessor ends (StopAsyncIteration) only
\* after every branch task has completed and every output of every branch has
\* been yielded: when it ends no task is created-but-unfinished or running, and
\* the yielded sequence is all results of all tasks.
C6_Termination ==
    (IsPar /\ status = "done") =>
        /\ Len(gen.tasks) = Len(proc.processors)
        /\ \A i \in Branches : gen.tasks[i].st = "done"
        /\ Len(gen.order) = Len(proc.processors)
        /\ out = Concat([k \in Branches |-> gen.tasks[gen.order[k]].results],
                        Len(proc.processors))

C6_Witness ==
    /\ IsPar /\ status = "done" /\ Len(proc.processors) = 3 /\ Len(input) = 3
    /\ gen.order = <<3, 1, 2>>

Merging == gen.g = "par" /\ gen.phase = "merge"

\* no task can take a step any more and the caller has stopped iterating
Quiescent == Finished /\ \A i \in Branches : ~Live(gen.tasks[i])

\* C7 as stated: if one branch raises while other branches have produced
\* outputs or are still running, the outputs of those other branches are still
\* yielded to the caller: once the run is over, every output of every branch
\* that did not fail has been yielded.
C7_AsStated ==
    (IsPar /\ Merging /\ Quiescent /\ \E f \in Branches : gen.tasks[f].st = "failed") =>
        \A i \in Branches : gen.tasks[i].st = "done" => Group(i) = gen.tasks[i].results

\* C7 amended: an exception raised by a branch (handle_errors=False) reaches
\* the caller when that branch's task is reached in completion order and ends
\* the stream there: exactly the outputs of the branches whose tasks completed
\* before the failing one have been yielded, and no output of any other branch
\* (nor of the failing one) is ever yielded.  The stream ends normally only if
\* no branch failed; a branch with error isolation never makes it raise.
C7_BranchFailure ==
    (IsPar /\ Merging) =>
        /\ status = "raised" =>
              /\ gen.taken >= 1
              /\ gen.tasks[gen.order[gen.taken]].st = "failed"
              /\ raised = gen.tasks[gen.order[gen.taken]].exc
              /\ \A k \in 1..(gen.taken - 1) : gen.tasks[gen.order[k]].st = "done"
              /\ out = Concat([k \in 1..(gen.taken - 1) |-> gen.tasks[gen.order[k]].results],
                              gen.taken - 1)
              /\ \A i \in Branches :
                    (\A k \in 1..(gen.taken - 1) : gen.order[k] # i) => Group(i) = <<>>
        /\ status = "done" => \A i \in Branches : gen.tasks[i].st = "done"
        /\ expr = Slashes(L(chatIso), L(exclaim)) => status # "raised"

C7_Witness ==
    /\ IsPar /\ Merging /\ Quiescent /\ status = "raised"
    /\ Len(out) > 0
    /\ \E i \in Branches :
          gen.tasks[i].st = "done" /\ gen.tasks[i].results # <<>> /\ Group(i) = <<>>

BranchOf(x) == CHOOSE i \in Branches : substream_name(x) = TagOf(i)

\* how many of the first n yielded packets carry branch i's tag
YieldedBefore(i, n) ==
    Cardinality({q \in 1..n : substream_name(out[q]) = TagOf(i)})

\* how many items branch i had produced before event number e of the history
ProducedBefore(i, e) ==
    Cardinality({d \in 1..(e - 1) : hist[d] = Event(i - 1, "item")})

\* the place in the history where branch j produced its n-th item
ProducedAt(j, n) ==
    CHOOSE e \in 1..Len(hist) :
        hist[e] = Event(j - 1, "item") /\ ProducedBefore(j, e) = n - 1

\* the place in the history where branch i's task completed (0: not yet)
DoneAt(i) ==
    IF \E e \in 1..Len(hist) : hist[e] = Event(i - 1, "done")
    THEN CHOOSE e \in 1..Len(hist) : hist[e] = Event(i - 1, "done")
    ELSE 0

\* C5 as stated: the merge is first-produced, first-yielded at item
\* granularity: every item another branch produced before a yielded item was
\* produced has itself been yielded before it.
C5_AsStated ==
    (IsPar /\ Merging) =>
        \A q \in 1..Len(out) :
            LET j == BranchOf(out[q])
                e == ProducedAt(j, YieldedBefore(j, q))
            IN \A i \in Branches \ {j} : ProducedBefore(i, e) <= YieldedBefore(i, q - 1)

\* C5 amended: the merge is first-completed, first-yielded at branch
\* granularity: an item is yielded only after the task of its branch has
\* completed, and whenever branch i's task completes before branch j's, every
\* output of branch i is yielded before any output of branch j, regardless of
\* branch index and of the order in which the items were produced.
C5_CompletionOrder ==
    (IsPar /\ Merging) =>
        \A q \in 1..Len(out) :
            LET j == BranchOf(out[q]) IN
            /\ DoneAt(j) > 0
            /\ \A i \in Branches \ {j} :
                  (DoneAt(i) > 0 /\ DoneAt(i) < DoneAt(j)) =>
                      YieldedBefore(i, q - 1) = Len(gen.tasks[i].results)

\* branch 0 produced the first item of all, yet the first item yielded is one
\* of branch 1, whose task completed first
C5_Witness ==
    /\ IsPar /\ Merging /\ Len(out) >= 1
    /\ hist[1] = Event(0, "item")
    /\ BranchOf(out[1]) = 2
    /\ DoneAt(2) > 0 /\ (DoneAt(1) = 0 \/ DoneAt(2) < DoneAt(1))

----------------------------------------------------------------------------
(* Claims about compositions of every shape (SpecMix) *)

IsComposite == proc.node \in {"seq", "par"}

NoStreamGiven == hist # <<>> /\ hist[1] = Event(-1, "nostream")

\* processor p is or contains a processor that yields packets of its own
RECURSIVE HasSource(_)
HasSource(p) ==
    CASE p.node = "leaf" -> p.cls = "FromIterableProcessor"
      [] p.node = "seq" -> HasSource(p.first) \/ HasSource(p.second)
      [] p.node = "par" -> \E i \in 1..Len(p.processors) : HasSource(p.processors[i])

\* C11 as stated: an empty input sequence, or no input stream at all, through
\* any composition (sequential, parallel or a nesting of both) yields nothing
\* and raises nothing.
C11_AsStated ==
    (IsComposite /\ input = <<>>) => (out = <<>> /\ status # "raised")

\* C11 amended: an empty input sequence, or no input stream at all, through a
\* sequential or parallel composite or a nesting of both, none of whose
\* processors is a source that yields packets of its own
\* (FromIterableProcessor), yields nothing and raises nothing; with such a
\* source in first place the composite yields what the source's items give.
C11_EmptyInEmptyOut ==
    (IsComposite /\ input = <<>>) =>
        /\ ~HasSource(proc) =>
              /\ out = <<>>
              /\ status # "raised"
              /\ raised = NoExc
        /\ (expr = Plus(L(source), L(upper)) /\ status = "done") =>
              out = <<from_text(Upper(source.arg), EmptyDict)>>

C11_Witness ==
    /\ expr = Plus(L(prefix1), Slashes(L(chatOk), L(chatOk)))
    /\ NoStreamGiven
    /\ status = "done" /\ out = <<>>

\* the input packets (by position) on which the API call of chatIso fails
Failing == {k \in 1..Len(input) : InputPackets[k].content = FailingItem}

\* C15 as stated: the packet yielded for a failing input packet is a text
\* packet whose content is the exception's message, marked as an error with
\* the exception's type name, with the original packet's metadata nested
\* under the key "source".
C15_AsStated ==
    expr = L(chatIso) =>
        \A j \in 1..Len(out) : j \in Failing =>
            /\ is_text(out[j])
            /\ out[j].content = Str(ApiError.msg)
            /\ substream_name(out[j]) = <<"error">>
            /\ out[j].metadata["error_type"] = <<ApiError.type>>
            /\ "source" \in DOMAIN out[j].metadata
            /\ out[j].metadata["source"] = InputPackets[j].metadata

\* C15 amended: the packet yielded for a failing input packet is a text packet
\* (mimetype text/plain) whose content is the exception's message, with
\* substream_name "error" and error_type the exception's type name; it
\* carries the original packet's metadata nested under the key
\* "source_metadata" if that metadata is not empty, and has no such key (and
\* no other key) if it is empty.
C15_ErrorPacketShape ==
    expr = L(chatIso) =>
        \A j \in 1..Len(out) : j \in Failing =>
            LET orig == InputPackets[j].metadata IN
            /\ is_text(out[j])
            /\ out[j].content = Str(ApiError.msg)
            /\ out[j].metadata["mimetype"] = <<"text/plain">>
            /\ out[j].metadata["substream_name"] = <<"error">>
            /\ out[j].metadata["error_type"] = <<ApiError.type>>
            /\ "source" \notin DOMAIN out[j].metadata
            /\ IF orig # EmptyDict
               THEN /\ DOMAIN out[j].metadata =
                          {"mimetype", "substream_name", "error_type", "source_metadata"}
                    /\ out[j].metadata["source_metadata"] = orig
               ELSE DOMAIN out[j].metadata = {"mimetype", "substream_name", "error_type"}

\* one failing packet that has metadata and one that has none
C15_Witness ==
    /\ expr = L(chatIso)
    /\ input = <<Packet(FailingItem, alice), Packet(FailingItem, EmptyDict)>>
    /\ status = "done" /\ Len(out) = 2
    /\ out[1].metadata["source_metadata"] = alice
    /\ "source_metadata" \notin DOMAIN out[2].metadata

\* the generators of all ParallelProcessor calls inside generator g
RECURSIVE ParGens(_)
ParGens(g) ==
    CASE g.g \in {"nogen", "none", "list"} -> {}
      [] g.g \in {"base", "norm"} -> ParGens(g.up)
      [] g.g = "seq" -> ParGens(g.inner)
      [] g.g = "par" ->
            {g} \cup ParGens(g.up)
                \cup UNION {ParGens(g.tasks[i].gen) : i \in 1..Len(g.tasks)}

\* the input stream of parallel generator g has been read to its end
InputExhausted(g) == Next(g.up).k = "stop"

\* what the stage before the parallel composite yields in all
Upstream ==
    IF proc.node = "par" THEN InputPackets
    ELSE collect(Call(proc.first, from_items(input))).out

IsParOrFeedsPar == proc.node = "par" \/ (proc.node = "seq" /\ proc.second.node = "par")

\* C16: a ParallelProcessor reads its input stream to the end, in order,
\* before any branch is dispatched: while it materializes no task exists and
\* what it holds is the input read so far, in order; once tasks exist the
\* input stream is exhausted and the list they were given is the whole input.
C16_MaterializeFirst ==
    /\ \A g \in ParGens(gen) :
          /\ g.phase = "materialize" => g.tasks = <<>>
          /\ g.tasks # <<>> => (g.phase = "merge" /\ InputExhausted(g))
          /\ \A i \in 1..Len(g.tasks) : Source(g.tasks[i].gen).items = g.packets
    /\ (IsParOrFeedsPar /\ gen # NoGen) =>
          LET g == IF gen.g = "par" THEN gen ELSE gen.inner IN
          /\ IsPrefix(g.packets, Upstream)
          /\ g.phase = "merge" => g.packets = Upstream

\* the input stream suspended at the API while it was read; both replies are
\* in the list the two tasks were given
C16_Witness ==
    /\ expr = Plus(L(chatOk), Slashes(L(upper), L(passthrough)))
    /\ Len(input) = 2
    /\ gen # NoGen /\ gen.inner.phase = "merge"
    /\ Len(gen.inner.tasks) = 2 /\ Len(gen.inner.packets) = 2
    /\ Source(gen.inner.tasks[2].gen).items = gen.inner.packets

----------------------------------------------------------------------------
(* Further claims about parallel composites (Spec) *)

\* C17: under every interleaving of the branch tasks each branch iterates its
\* own replay of the materialized input, complete and in the original order:
\* whatever the other branches have consumed, what a branch has produced is
\* what it produces when run alone on the whole input, and a branch that has
\* completed has read the whole input.
C17_PrivateReplay ==
    (IsPar /\ Merging) =>
        /\ gen.packets = InputPackets
        /\ \A i \in Branches :
              LET t == gen.tasks[i]
                  s == Source(t.gen)
                  alone == Alone(i)
                  stamped == Stamped(i)
              IN /\ s.items = InputPackets
                 /\ IsPrefix(t.results, stamped)
                 /\ t.st = "done" =>
                       (s.pos = Len(InputPackets) /\ t.results = stamped
                        /\ alone.exc = NoExc)
                 /\ t.st = "failed" =>
                       (t.results = stamped /\ t.exc = alone.exc /\ t.exc # NoExc)

\* three branches at three different places of their replays
C17_Witness ==
    /\ IsPar /\ Merging /\ Len(proc.processors) = 3 /\ Len(input) = 3
    /\ Source(gen.tasks[1].gen).pos = 1
    /\ Source(gen.tasks[2].gen).pos = 3 /\ gen.tasks[2].st = "done"
    /\ Source(gen.tasks[3].gen).pos = 2

\* packet q is packet p with substream_name set to tag and nothing else changed
IsStamped(q, p, tag) ==
    /\ q.content = p.content
    /\ DOMAIN q.metadata = DOMAIN p.metadata \cup {"substream_name"}
    /\ q.metadata["substream_name"] = tag
    /\ \A key \in DOMAIN p.metadata \ {"substream_name"} : q.metadata[key] = p.metadata[key]

\* C18: tagging makes new packets and changes none: whatever the tasks have
\* tagged, the materialized input is the input as it was given (no packet of
\* it carries a tag), and every result is the packet its branch produced
\* with only substream_name added; when two branches pass the input through
\* unchanged, every input packet comes out twice, as two packets that differ
\* in substream_name only.
C18_TaggingNeverMutates ==
    (IsPar /\ Merging) =>
        /\ gen.packets = InputPackets
        /\ \A k \in 1..Len(gen.packets) : substream_name(gen.packets[k]) = NoneVal
        /\ \A i \in Branches :
              LET alone == Alone(i).out IN
              \A k \in 1..Len(gen.tasks[i].results) :
                 IsStamped(gen.tasks[i].results[k], alone[k], TagOf(i))
        /\ (expr = Slashes(L(passthrough), L(passthrough)) /\ status = "done") =>
              /\ Len(out) = 2 * Len(input)
              /\ \A k \in 1..Len(input) :
                    /\ IsStamped(Group(1)[k], InputPackets[k], TagOf(1))
                    /\ IsStamped(Group(2)[k], InputPackets[k], TagOf(2))
                    /\ substream_name(Group(1)[k]) # substream_name(Group(2)[k])

C18_Witness ==
    /\ expr = Slashes(L(passthrough), L(passthrough)) /\ status = "done"
    /\ Len(input) = 2 /\ Len(out) = 4
    /\ substream_name(out[1]) = <<"branch_", "0", "_", "PassThroughProcessor">>
    /\ substream_name(out[3]) = <<"branch_", "1", "_", "PassThroughProcessor">>
    /\ gen.packets = InputPackets

----------------------------------------------------------------------------
(* Claims about packets (SpecPacket) *)

\* the calls made so far: call c made packet out[c + 1] of packet out[hist[c].of]
Calls == IF status = "packet" THEN 1..Len(hist) ELSE {}

\* C19: p.with_metadata(m) returns a new packet with p's content whose
\* metadata has the keys of p.metadata and of m, with m's value for every key
\* of m and p's value for every other key; p itself, and every packet made
\* before, keeps its content and metadata: the packet first constructed is
\* still what its constructor made of its arguments.
C19_WithMetadata ==
    /\ \A c \in Calls :
          LET p == out[hist[c].of]
              m == hist[c].kwargs
              q == out[c + 1]
          IN /\ q.content = p.content
             /\ DOMAIN q.metadata = DOMAIN p.metadata \cup DOMAIN m
             /\ \A key \in DOMAIN m : q.metadata[key] = m[key]
             /\ \A key \in DOMAIN p.metadata \ DOMAIN m : q.metadata[key] = p.metadata[key]
    /\ status = "packet" =>
          /\ Len(out) = Len(hist) + 1
          /\ out[1].content = expr.content
          /\ \A key \in DOMAIN expr.metadata : out[1].metadata[key] = expr.metadata[key]
          /\ DOMAIN out[1].metadata \subseteq DOMAIN expr.metadata \cup {"mimetype"}

\* author and mimetype are overridden, in two calls on the same packet
C19_Witness ==
    /\ status = "packet" /\ Len(hist) = 2
    /\ expr = [op |-> "from_text", content |-> Str(<<"a">>), metadata |-> alice]
    /\ hist[1] = [of |-> 1, kwargs |-> bob]
    /\ hist[2] = [of |-> 1, kwargs |-> [author |-> <<"bob">>, mimetype |-> <<"text/html">>]]
    /\ out[1].metadata["author"] = <<"alice">>
    /\ out[2].metadata = [mimetype |-> <<"text/plain">>, author |-> <<"bob">>]
    /\ out[3].metadata = [mimetype |-> <<"text/html">>, author |-> <<"bob">>]

\* how many of is_text, is_bytes, is_image hold of packet p
TrueOf(p) ==
    (IF is_text(p) THEN 1 ELSE 0) + (IF is_bytes(p) THEN 1 ELSE 0)
        + (IF is_image(p) THEN 1 ELSE 0)

\* C20: of every packet exactly one of is_text, is_bytes and is_image is
\* true, and a packet made by with_metadata answers all three as the packet it
\* was made of does; without PIL no image packet comes to exist (from_image
\* raises ImportError).
C20_TypePredicates ==
    /\ \A k \in 1..Len(out) : TrueOf(out[k]) = 1
    /\ \A c \in Calls :
          LET p == out[hist[c].of]
              q == out[c + 1]
          IN /\ is_text(q) = is_text(p)
             /\ is_bytes(q) = is_bytes(p)
             /\ is_image(q) = is_image(p)
    /\ status = "packet" =>
          /\ is_text(out[1]) = (expr.content.type = "str")
          /\ is_bytes(out[1]) = (expr.content.type = "bytes")
          /\ is_image(out[1]) = (expr.content.type = "image")
    /\ (expr.op = "from_image" /\ Image = NoneVal /\ status # "build") =>
          (status = "raised" /\ raised.type = "ImportError" /\ out = <<>>)

C20_Witness ==
    /\ status = "packet" /\ Len(hist) = 2 /\ Image = PIL
    /\ expr.op = "from_image"
    /\ hist[2].of = 2 /\ hist[2].kwargs = [author |-> <<"bob">>, mimetype |-> <<"text/html">>]
    /\ is_image(out[3]) /\ ~is_text(out[3]) /\ ~is_bytes(out[3])

----------------------------------------------------------------------------
(* Claims about ChatProcessor on its own (SpecSeq) *)

IsChat == Built /\ proc.node = "leaf" /\ proc.cls = "ChatProcessor" /\ gen # NoGen

\* C21: Non-text pass-through.  ChatProcessor yields every non-text input
\* packet unchanged (same content and metadata) in its original position:
\* with one output per input packet, the i-th output is the i-th input packet
\* whenever that is not text.  The completion API is awaited for text packets
\* only, a finished stream has dropped nothing, and an exception that reaches
\* the caller was raised for a text packet.
C21_NonTextPassThrough ==
    IsChat =>
        /\ \A i \in 1..Len(out) : ~is_text(InputPackets[i]) => out[i] = InputPackets[i]
        /\ gen.wait => is_text(gen.cur)
        /\ status = "done" => Len(out) = Len(input)
        /\ status = "raised" =>
              Len(out) < Len(input) /\ is_text(InputPackets[Len(out) + 1])

\* a bytes packet between two prompts, the second of which fails at the API,
\* has come out second and unchanged
C21_Witness ==
    /\ IsChat
    /\ proc = chatIso
    /\ status = "done"
    /\ input = <<Str(<<"a">>), Bytes(<<"x">>), Str(<<"b">>)>>
    /\ Len(out) = 3
    /\ out[2] = from_bytes(<<"x">>, EmptyDict)
    /\ IsErrorPacket(out[3])

----------------------------------------------------------------------------
(* Claims about repeated invocation (SpecReuse) *)

\* the invocations that have ended, the current one included
Runs == hist \o (IF status = "done" THEN <<[input |-> input, out |-> out]>> ELSE <<>>)

\* the items stream g yields to its end when the event loop runs the branch
\* tasks inside it in one fixed order
RECURSIVE RunAlone(_, _)
RunAlone(g, acc) ==
    LET r == Next(g) IN
    CASE r.k = "item" -> RunAlone(r.g, Append(acc, r.v))
      [] r.k \in {"stop", "raise"} -> acc
      [] r.k = "pending" ->
            IF r.g # g THEN RunAlone(r.g, acc)
            ELSE LET S == {s \in TaskSuccs(g) : s.g # g} IN
                 IF S = {} THEN acc ELSE RunAlone((CHOOSE s \in S : TRUE).g, acc)

\* what a first invocation of sequential composite p yields on items
FirstRun(p, items) == RunAlone(Call(p, from_items(items)), <<>>)

\* what branch i of parallel composite p yields on items, stamped with its tag
FirstRunOfBranch(p, i, items) ==
    LET o == collect(Call(p.processors[i], ListStream(from_items(items).items))).out IN
    [k \in 1..Len(o) |-> TagResult(o[k], i - 1, p.processors[i])]

\* the packets of o that carry the tag of branch i of p, in order
GroupOf(p, i, o) ==
    SelectSeq(o, LAMBDA x : substream_name(x) = BranchTag(i - 1, p.processors[i]))

SameOutput(p, a, b) ==
    IF p.node = "par"
    THEN \A i \in 1..Len(p.processors) : GroupOf(p, i, a) = GroupOf(p, i, b)
    ELSE a = b

----------------------------------------------------------------------------
(* Claims about FilterProcessor (SpecFilter) *)

IsFilter == Built /\ proc.node = "leaf" /\ proc.cls = "FilterProcessor"

\* the names an argument of FilterProcessor stands for
NamesOf(names) ==
    IF names.type = "str" THEN {names.val} ELSE {names.val[i] : i \in 1..Len(names.val)}

\* the filter rule in terms of the constructor's arguments
Passes(include, exclude, packet) ==
    /\ include = None \/ substream_name(packet) \in NamesOf(include)
    /\ exclude = None \/ substream_name(packet) \notin NamesOf(exclude)

\* C23: FilterProcessor semantics.  For FilterProcessor(include, exclude) on
\* its own: a packet passes iff (include is None or its substream_name is in
\* include) and (exclude is None or its substream_name is not in exclude); a
\* packet without substream_name counts as having substream_name None; with
\* neither argument every packet passes; the output is the subsequence of the
\* input packets that pass, each unchanged and in input order.
C23_FilterSemantics ==
    (IsFilter /\ status = "done") =>
        \E i \in Includes : \E e \in Excludes :
            /\ expr = L(FilterProcessor(i, e))
            /\ out = SelectSeq(InputPackets, LAMBDA x : Passes(i, e, x))
            /\ (i = None /\ e = None) => out = InputPackets
            /\ \A k \in 1..Len(input) :
                  "substream_name" \notin DOMAIN InputPackets[k].metadata =>
                      (Passes(i, e, InputPackets[k]) <=> i = None)

\* include and exclude both given: of an error packet and a branch_0 packet
\* only the second has come out
C23_Witness ==
    /\ IsFilter /\ status = "done"
    /\ expr = L(FilterProcessor(List(<<branch_0, branch_1>>), Str(error)))
    /\ Len(input) = 2
    /\ substream_name(input[1]) = error
    /\ out = <<from_text(<<"a">>, [substream_name |-> branch_0])>>

\* the docstring's routing pipeline, built
IsRouting == Built /\ expr = Plus(Plus(parallel_proc, L(filter_proc)), L(next_proc))

\* C24: Routing after fan-out, as stated.  In parallel_proc +
\* FilterProcessor(include="branch_0") + next_proc the packets that come out
\* are exactly the packets branch 0 of the parallel composite produced (each
\* stamped with that branch's tag), and none of any other branch.
C24_AsStated ==
    (IsRouting /\ status = "done") => out = FirstRunOfBranch(proc.first.first, 1, input)

\* the docstring's pipeline that drops errors, around a leaf processor
IsNoErrors ==
    /\ Built
    /\ \E processor \in {chatIso, chatOk, upper, passthrough} :
          expr = Plus(Plus(L(processor), L(no_errors)), L(next_processor))

\* x was made by error isolation in place of an exception (it names the
\* exception's type)
FromIsolation(x) == IsPacket(x) /\ "error_type" \in DOMAIN x.metadata

\* the packets of o other than those made by error isolation, in order
NonErrors(o) == SelectSeq(o, LAMBDA x : ~FromIsolation(x))

\* C25 as stated: in processor + FilterProcessor(exclude="error") +
\* next_processor, whatever processor is, no packet made by error isolation
\* inside processor reaches next_processor.
C25_AsStated ==
    (Built /\ expr.op = "+" /\ expr.l.op = "+" /\ expr.l.r = L(no_errors)) =>
        \A k \in 1..Len(out) : ~FromIsolation(out[k])

\* C25: Excluding errors.  In processor + FilterProcessor(exclude="error") +
\* next_processor, with processor a leaf under error isolation and
\* next_processor passing on what it receives: no error packet ever comes
\* through, what has come through is a prefix of processor's non-error
\* outputs in their order, and when the stream ends it is all of them.
C25_ExcludingErrors ==
    IsNoErrors =>
        LET produced == FirstRun(proc.first.first, input) IN
        /\ \A k \in 1..Len(out) : ~FromIsolation(out[k])
        /\ IsPrefix(out, NonErrors(produced))
        /\ status = "done" => out = NonErrors(produced)

\* a chat processor failed on the second of three prompts: its error packet
\* was dropped and the two replies came through
C25_Witness ==
    /\ IsNoErrors /\ status = "done"
    /\ expr.l.l = L(chatIso)
    /\ input = <<Str(<<"a">>), Str(<<"b">>)>>
    /\ Len(FirstRun(proc.first.first, input)) = 2
    /\ IsErrorPacket(FirstRun(proc.first.first, input)[2])
    /\ Len(out) = 1

----------------------------------------------------------------------------
(* Claims about SequentialPipeline and ParallelPipeline (SpecPipeline) *)

IsSequential == pipeline.cls = "SequentialPipeline"
IsParallel == pipeline.cls = "ParallelPipeline"
Returned == pipeline.pc = "returned"

NumProcessors == Len(pipeline.processors)

Validated(k) == \E c \in 1..Len(pipeline.calls) : pipeline.calls[c] = Call_("validate", k)
Processed(k) == \E c \in 1..Len(pipeline.calls) : pipeline.calls[c] = Call_("process", k)

\* processor p fails whatever the context holds: its validation fails, or its
\* process() returns FAILED or raises
AlwaysFails(p) ==
    \/ p.cls = "MockProcessor" /\ p.should_fail
    \/ p.cls \in {"FailingProcessor", "RaisingProcessor"}
    \/ p.cls = "SlowProcessor" /\ p.should_fail

\* the results processor p can give: the pipeline's FAILED result for a failed
\* validation, or what its process() returns or raises on some context
ResultsOf(p) ==
    {InvalidInput(p)}
    \cup {LET o == process(p, Context(d)) IN Convert(o)
            : d \in {EmptyDict, [prompt |-> <<"hi">>], [prompt |-> <<>>]}}

\* C26: SequentialPipeline.execute with stop_on_error=True stops at the first
\* failure.  At every point of the execution at most one result is FAILED and
\* it is the last one; once there is one, the loop is left and no processor
\* after the failed one has been validated or processed; a processor that
\* fails validation, returns FAILED or raises gives a FAILED result; and the
\* list returned is the results up to and including the first failure.
C26_StopOnError ==
    (IsSequential /\ pipeline.stop_on_error) =>
        LET res == pipeline.results IN
        /\ \A k \in 1..Len(res) : res[k].status = "FAILED" => k = Len(res)
        /\ \A k \in 1..Len(res) : AlwaysFails(pipeline.processors[k]) => res[k].status = "FAILED"
        /\ (res # <<>> /\ res[Len(res)].status = "FAILED") =>
              /\ pipeline.pc \in {"break", "returned"}
              /\ \A k \in (Len(res) + 1)..NumProcessors : ~Validated(k) /\ ~Processed(k)
        /\ Returned =>
              /\ pipeline.ret = res
              /\ Len(res) = NumProcessors \/ res[Len(res)].status = "FAILED"

\* the second of three processors raised: two results were returned, the
\* second FAILED, and the third processor was never validated
C26_Witness ==
    /\ IsSequential /\ pipeline.stop_on_error /\ Returned
    /\ pipeline.processors = <<MockProcessor("P1", FALSE), RaisingProcessor,
                               MockProcessor("P1", FALSE)>>
    /\ Len(pipeline.ret) = 2
    /\ pipeline.ret[1].status = "COMPLETED"
    /\ pipeline.ret[2].status = "FAILED"
    /\ ~Validated(3)

\* C27: SequentialPipeline.execute with stop_on_error=False continues after
\* failures.  It returns one result per processor, the k-th being a result of
\* the k-th processor; every processor was validated, whatever failed before
\* it, and was processed unless its own validation failed, in which case its
\* result is the FAILED result for invalid input.
C27_ContinueOnError ==
    (IsSequential /\ ~pipeline.stop_on_error /\ Returned) =>
        /\ Len(pipeline.ret) = NumProcessors
        /\ \A k \in 1..NumProcessors :
              /\ pipeline.ret[k] \in ResultsOf(pipeline.processors[k])
              /\ Validated(k)
              /\ ~Processed(k) => pipeline.ret[k] = InvalidInput(pipeline.processors[k])
              /\ AlwaysFails(pipeline.processors[k]) => pipeline.ret[k].status = "FAILED"
        /\ \A c \in 1..Len(pipeline.calls) : \A d \in 1..Len(pipeline.calls) :
              c < d => pipeline.calls[c].i <= pipeline.calls[d].i

\* a failed validation and an exception were both followed by a processor
\* that ran and completed
C27_Witness ==
    /\ IsSequential /\ ~pipeline.stop_on_error /\ Returned
    /\ pipeline.processors = <<MockProcessor("Fail", TRUE), RaisingProcessor,
                               MockProcessor("P1", FALSE)>>
    /\ Len(pipeline.ret) = 3
    /\ pipeline.ret[1] = InvalidInput(MockProcessor("Fail", TRUE))
    /\ pipeline.ret[2].status = "FAILED"
    /\ pipeline.ret[3].status = "COMPLETED"
    /\ Processed(3)

\* the context data processor k of a parallel pipeline reads: what the
\* processors that succeed wrote before it started (here the prompt of a
\* PromptProcessor at a lower index), whatever the failing processors did
DataSeenBy(k) ==
    IF \E j \in 1..(k - 1) : pipeline.processors[j].cls = "PromptProcessor"
    THEN [prompt |-> <<"hi">>] ELSE EmptyDict

\* C28: ParallelPipeline.execute with stop_on_error=False returns one result
\* per processor, index-aligned whatever the order in which the processors
\* completed: result i is the result of processor i, a processor that fails
\* or raises has a FAILED result at its own index, and the result of a
\* processor depends on no processor that failed or raised.
C28_IndexAligned ==
    (IsParallel /\ ~pipeline.stop_on_error /\ Returned) =>
        /\ Len(pipeline.ret) = NumProcessors
        /\ \A k \in 1..NumProcessors :
              /\ pipeline.ret[k] =
                    Convert(process(pipeline.processors[k], Context(DataSeenBy(k))))
              /\ AlwaysFails(pipeline.processors[k]) => pipeline.ret[k].status = "FAILED"

\* the three processors completed in the order 3, 2, 1; the second raised
C28_Witness ==
    /\ IsParallel /\ ~pipeline.stop_on_error /\ Returned
    /\ pipeline.processors = <<SlowProcessor("S1", FALSE), SlowProcessor("S2", TRUE),
                               MockProcessor("Success", FALSE)>>
    /\ pipeline.order = <<3, 2, 1>>
    /\ pipeline.ret[1] = ProcessingResult("COMPLETED", <<"S1">>, NoExc)
    /\ pipeline.ret[2].status = "FAILED"
    /\ pipeline.ret[3].status = "COMPLETED"

\* the names of the processors whose process() was invoked, in call order
RECURSIVE ProcessedNames(_)
ProcessedNames(calls) ==
    IF calls = <<>> THEN <<>>
    ELSE (IF Head(calls).op = "process"
          THEN <<pipeline.processors[Head(calls).i].name>> ELSE <<>>)
         \o ProcessedNames(Tail(calls))

\* C29: Execution history of SequentialPipeline.  Throughout execute and
\* after it, context.get_history() is the list of the names of the processors
\* whose process() was invoked, in pipeline order; a processor whose
\* validate_input returned False was not processed and is not in it.
C29_History ==
    IsSequential =>
        /\ context.history = ProcessedNames(pipeline.calls)
        /\ Len(context.history) = Cardinality({k \in 1..NumProcessors : Processed(k)})
        /\ \A k \in 1..NumProcessors :
              (Validated(k) /\ pipeline.processors[k].cls = "MockProcessor"
                 /\ pipeline.processors[k].should_fail) => ~Processed(k)

\* the processor in the middle failed validation and is missing from the history
C29_Witness ==
    /\ IsSequential /\ Returned /\ ~pipeline.stop_on_error
    /\ pipeline.processors = <<MockProcessor("P1", FALSE), MockProcessor("Fail", TRUE),
                               PromptProcessor(<<"hi">>)>>
    /\ context.history = <<"P1", "PromptProcessor">>

\* the context as it was handed to execute(): no processor writes the
\* key of the initial data
Given == Context([k \in (DOMAIN context.data) \cap {"initial"} |-> context.data[k]])

\* execute() got as far as gather
Gathered == IsParallel /\ pipeline.tasks # <<>>

\* C38, as stated: every processor of a parallel execution works on its own
\* copy of the context, so each result is what the processor returns on the
\* context that was handed to execute().
C38_AsStated ==
    (Gathered /\ Returned) =>
        \A k \in 1..NumProcessors :
            pipeline.ret[k] = Convert(process(pipeline.processors[k], Given))

\* C38, as the code behaves: the tasks of a parallel execution write to the
\* one context of the caller.  Whatever a completed processor wrote under its
\* output key is in the caller's context, during gather and after execute()
\* returned, and each result is the processor's result on the data written
\* by then.
C38_SharedContext ==
    Gathered =>
        /\ \A k \in 1..NumProcessors :
              LET p == pipeline.processors[k]
                  t == pipeline.tasks[k]
                  o == process(p, Context(DataSeenBy(k)))
              IN (t.st = "done" /\ t.kind = "return" /\ t.result.status = "COMPLETED"
                    /\ p.output_key # "")
                    => /\ has(context, p.output_key)
                       /\ get(context, p.output_key) = get(o.ctx, p.output_key)
        /\ Returned =>
              \A k \in 1..NumProcessors :
                  pipeline.ret[k] =
                      Convert(process(pipeline.processors[k], Context(DataSeenBy(k))))

\* LLMProcessor answered the prompt that PromptProcessor wrote during the
\* same parallel execution, and both values are in the caller's context
C38_Witness ==
    /\ Gathered /\ Returned
    /\ pipeline.processors = <<PromptProcessor(<<"hi">>), LLMProcessor>>
    /\ Given = Context(EmptyDict)
    /\ pipeline.ret[2] =
          ProcessingResult("COMPLETED", generate_mock_response(<<"hi">>), NoExc)
    /\ get(context, "prompt") = <<"hi">>
    /\ get(context, "llm_response") = generate_mock_response(<<"hi">>)

----------------------------------------------------------------------------
(* Claims about the granularity of error isolation (SpecGranularity) *)

IsLeafRun == expr.op = "leaf" /\ expr.p \in GranularityLeaves

\* the same processor constructed with the other value of handle_errors
OtherMode(p) == [p EXCEPT !.handle_errors = ~@]

\* the outputs of p on [x1], ..., [xn], one after the other
RECURSIVE PerPacket(_, _)
PerPacket(p, items) ==
    IF items = <<>> THEN <<>>
    ELSE collect(Call(p, from_items(<<Head(items)>>))).out \o PerPacket(p, Tail(items))

\* what p yields on the whole input, and how the stream ends
Whole(p, items) == collect(Call(p, from_items(items)))

KeepsState(p) == p.cls = "NumberingProcessor"

\* C30: Per-packet isolation changes granularity.  A leaf with
\* handle_errors=True yields on [x1..xn] the concatenation of its outputs on
\* [x1], ..., [xn] (at every moment a prefix of it) and never raises.  For a
\* processor whose _process_stream keeps no state across packets this is the
\* output of the same processor with handle_errors=False whenever that one
\* does not raise; for one that counts the packets of its stream the two
\* outputs differ as soon as a text packet follows another packet.
C30_Granularity ==
    (IsLeafRun /\ expr.p.handle_errors) =>
        LET p == expr.p
            raw == Whole(OtherMode(p), input)
        IN
        /\ status # "raised"
        /\ IsPrefix(out, PerPacket(p, input))
        /\ status = "done" =>
              /\ out = PerPacket(p, input)
              /\ (~KeepsState(p) /\ raw.exc = NoExc) => out = raw.out
              /\ (KeepsState(p) /\ \E k \in 2..Len(input) : is_text(InputPackets[k]))
                    => out # raw.out

\* the numbering processor marks every packet as the first of its stream under
\* isolation, and counts on without it
C30_Witness ==
    /\ expr = L(numbering)
    /\ input = <<Str(<<"a">>), Str(<<"b">>)>>
    /\ status = "done"
    /\ out = <<from_text(<<"#", "a">>, EmptyDict), from_text(<<"#", "b">>, EmptyDict)>>
    /\ Whole(numberingRaw, input).out
          = <<from_text(<<"#", "a">>, EmptyDict), from_text(<<"#", "#", "b">>, EmptyDict)>>

----------------------------------------------------------------------------
(* Further claims about ParallelProcessor's merge (Spec) *)

\* the place of branch i in the order of completion
CompletedAs(i) == CHOOSE k \in 1..Len(gen.order) : gen.order[k] = i

HasCompleted(i) == \E k \in 1..Len(gen.order) : gen.order[k] = i

\* C31: Branch-contiguous merge.  At every moment of the merge the packets
\* yielded so far fall into blocks, one per branch: once a packet of another
\* branch follows, no packet of the earlier branch comes again; a block is
\* the branch's results in its production order; a block comes before
\* another iff its task completed before the other's; and a branch whose
\* packet has been yielded has read the whole input and returned.
C31_ContiguousBlocks ==
    (IsPar /\ Merging) =>
        LET b == [k \in 1..Len(out) |-> BranchOf(out[k])] IN
        /\ \A k \in 1..Len(out) :
              LET t == gen.tasks[b[k]] IN
              /\ t.st = "done"
              /\ Source(t.gen).pos = Len(InputPackets)
              /\ HasCompleted(b[k])
        /\ \A k \in 1..(Len(out) - 1) :
              b[k] # b[k + 1] =>
                 /\ \A l \in (k + 1)..Len(out) : b[l] # b[k]
                 /\ CompletedAs(b[k]) < CompletedAs(b[k + 1])
        /\ \A i \in Branches : IsPrefix(Group(i), gen.tasks[i].results)
        /\ status = "done" => \A i \in Branches : Group(i) = gen.tasks[i].results

\* two chat branches, the second completed first: its two packets come as one
\* block before the two of the first
C31_Witness ==
    /\ IsPar /\ Merging /\ status = "done"
    /\ Len(proc.processors) = 2 /\ Len(input) = 2
    /\ gen.order = <<2, 1>>
    /\ Len(out) = 4
    /\ BranchOf(out[1]) = 2 /\ BranchOf(out[2]) = 2
    /\ BranchOf(out[3]) = 1 /\ BranchOf(out[4]) = 1

\* the branches whose processor raises when it is run alone on the input
FailingBranches == {i \in Branches : Alone(i).exc # NoExc}

\* C33: Failing branch in ParallelProcessor.  When a branch's processor raises
\* partway through the input, the task keeps what it collected but none of it
\* is ever yielded; the caller gets the exception itself, no error packet in
\* its place, at the moment the failed task is reached in completion order;
\* by then the results of every task that completed before it have been
\* yielded in full; and once nothing can run any more the caller has got it.
C33_FailingBranch ==
    (IsPar /\ Merging) =>
        LET failing == FailingBranches IN
        /\ \A f \in failing :
              /\ Group(f) = <<>>
              /\ gen.tasks[f].st \in {"created", "running", "failed"}
              /\ gen.tasks[f].st = "failed" => gen.tasks[f].exc = ApiError
        /\ status = "raised" =>
              LET f == gen.order[gen.taken] IN
              /\ f \in failing
              /\ raised = ApiError
              /\ \A k \in 1..(gen.taken - 1) :
                    /\ gen.order[k] \notin failing
                    /\ Group(gen.order[k]) = gen.tasks[gen.order[k]].results
              /\ Len(out) = SumLen([k \in 1..(gen.taken - 1) |-> gen.tasks[gen.order[k]].results],
                                   gen.taken - 1)
        /\ (status # "raised" /\ failing # {}) =>
              \A f \in failing : HasCompleted(f) => CompletedAs(f) > gen.taken
        /\ (Quiescent /\ failing # {}) => status = "raised"

\* the failing chat branch had collected the reply to "a" before it raised on
\* "b"; a branch that completed before it was yielded, the reply never is
C33_Witness ==
    /\ IsPar /\ Merging /\ status = "raised"
    /\ input = <<Str(<<"a">>), Str(<<"b">>)>>
    /\ gen.taken = 2
    /\ Len(gen.tasks[gen.order[2]].results) = 1
    /\ Len(out) = 2
    /\ Group(gen.order[2]) = <<>>

----------------------------------------------------------------------------
(* Claims about tags that are overwritten (SpecTags) *)

\* a // b // c, which Python builds as (a // b) // c
IsThreeSlashes == expr.op = "//" /\ expr.l.op = "//"

\* packets x and y differ at most in their substream_name
SameButName(x, y) ==
    /\ x.content = y.content
    /\ DOMAIN x.metadata \cup {"substream_name"} = DOMAIN y.metadata \cup {"substream_name"}
    /\ \A key \in DOMAIN x.metadata \ {"substream_name"} : x.metadata[key] = y.metadata[key]

----------------------------------------------------------------------------
(* Claims about what error isolation covers (SpecSeq) *)

\* a + b with a raising on the failing prompt and b under error isolation
IsRawThenIsolating ==
    /\ expr.op = "+" /\ expr.l.op = "leaf" /\ expr.r.op = "leaf"
    /\ expr.l.p = chatRaw
    /\ expr.r.p.handle_errors

\* the place of the first failing prompt in the input (0: none)
FirstFailing ==
    IF \E k \in 1..Len(input) : input[k] = FailingItem
    THEN CHOOSE k \in 1..Len(input) :
            input[k] = FailingItem /\ \A j \in 1..(k - 1) : input[j] # FailingItem
    ELSE 0

\* C34: Error isolation covers only the processor's own transform.  In a + b
\* with b under handle_errors=True and a raising while b pulls its next
\* packet from it, b yields no error packet for that exception: the
\* exception reaches the caller after the outputs for the packets before the
\* failing one, the stream is over (its generator is finished), and the
\* packets after the failing one are never read.
C34_UpstreamNotIsolated ==
    IsRawThenIsolating =>
        /\ \A k \in 1..Len(out) : ~FromIsolation(out[k])
        /\ FirstFailing # 0 =>
              /\ status # "done"
              /\ Len(out) < FirstFailing
              /\ gen # NoGen => Source(gen).pos <= FirstFailing
        /\ status = "raised" =>
              /\ FirstFailing # 0
              /\ raised = ApiError
              /\ Len(out) = FirstFailing - 1
              /\ Next(gen).k = "stop"
        /\ (FirstFailing = 0 /\ status = "done") => Len(out) = Len(input)

C34_Witness ==
    /\ expr = Plus(L(chatRaw), L(upper))
    /\ input = <<Str(<<"a">>), FailingItem, Str(<<"a">>)>>
    /\ status = "raised" /\ raised = ApiError
    /\ Len(out) = 1
    /\ Source(gen).pos = 2

----------------------------------------------------------------------------
(* Claims about outputs yielded before a failure (SpecGranularity) *)

IsSplitRun == expr.op = "leaf" /\ expr.p.cls = "SplitProcessor" /\ expr.p.handle_errors

\* how many packets come out for the first n input items: m parts and one
\* error packet for a failing item, the packet itself for any other
RECURSIVE OutputsFor(_, _)
OutputsFor(m, n) ==
    IF n = 0 THEN 0
    ELSE OutputsFor(m, n - 1) + (IF input[n] = FailingItem THEN m + 1 ELSE 1)

\* C35: Partial outputs before a failure are kept.  Under handle_errors=True,
\* when the transform yields m >= 0 packets for an input packet and then
\* raises, the m packets are yielded, then exactly one error packet for that
\* input packet (the exception's message and type, the packet's metadata
\* under 'source_metadata'), then the outputs for the next input packet;
\* nothing is raised to the caller.
C35_PartialOutputsKept ==
    IsSplitRun =>
        LET m == Len(expr.p.arg) IN
        /\ status # "raised"
        /\ Len(out) <= OutputsFor(m, Len(input))
        /\ status = "done" => Len(out) = OutputsFor(m, Len(input))
        /\ \A n \in 1..Len(input) :
              LET from == OutputsFor(m, n - 1) IN
              IF input[n] = FailingItem
              THEN /\ \A j \in 1..m :
                         from + j <= Len(out) =>
                            /\ ~FromIsolation(out[from + j])
                            /\ out[from + j].content = Str(<<"b", expr.p.arg[j]>>)
                   /\ from + m + 1 <= Len(out) =>
                         /\ IsErrorPacket(out[from + m + 1])
                         /\ out[from + m + 1].content = Str(ProcessingError.msg)
                         /\ out[from + m + 1].metadata["error_type"] = <<ProcessingError.type>>
                         /\ out[from + m + 1].metadata["source_metadata"]
                               = InputPackets[n].metadata
              ELSE from + 1 <= Len(out) => out[from + 1] = InputPackets[n]

\* two parts, then the error packet, then the next input packet
C35_Witness ==
    /\ expr = L(split2)
    /\ input = <<FailingItem, Str(<<"a">>)>>
    /\ status = "done"
    /\ Len(out) = 4
    /\ out[1].content = Str(<<"b", "1">>) /\ out[2].content = Str(<<"b", "2">>)
    /\ IsErrorPacket(out[3])
    /\ out[4] = InputPackets[2]

----------------------------------------------------------------------------
(* Claims about error packets downstream (SpecSeq) *)

\* a + b with a a ChatProcessor under error isolation
IsIsolatingThen == 
    /\ expr.op = "+" /\ expr.l.op = "leaf" /\ expr.r.op = "leaf"
    /\ expr.l.p = chatIso

\* the packet a yields for input item x
FirstStage(x) ==
    IF x = FailingItem THEN ErrorPacket(ApiError, to_packet(x))
    ELSE ProcessPacket(chatIso, to_packet(x)).out[1]

\* C36: Error packets are ordinary input downstream.  In a + b the error
\* packet a yields for a failing item is handed to b in its place in the
\* stream, and what comes out there is what b makes of that packet as of any
\* text packet: the k-th output is b's output for a's k-th packet, error
\* packet or not, none is dropped and none passes b untransformed.  Through
\* uppercase the message comes out in capitals as a fresh packet without the
\* 'error' name; through pass-through it comes out as it is.
C36_ErrorPacketsDownstream ==
    IsIsolatingThen =>
        LET b == expr.r.p IN
        /\ status # "raised"
        /\ Len(out) <= Len(input)
        /\ status = "done" => Len(out) = Len(input)
        /\ \A k \in 1..Len(out) :
              /\ is_text(FirstStage(input[k])) =>
                    out[k] = ProcessPacket(b, FirstStage(input[k])).out[1]
              /\ input[k] = FailingItem =>
                    /\ b = upper =>
                          /\ out[k].content = Str(Upper(ApiError.msg))
                          /\ substream_name(out[k]) = NoneVal
                    /\ b = prefix1 => out[k].content = Str(<<"1:">> \o ApiError.msg)
                    /\ b = passthrough => IsErrorPacket(out[k])
                    /\ b.cls = "ChatProcessor" =>
                          /\ out[k].content = Str(ApiReply(ApiError.msg))
                          /\ substream_name(out[k]) = NoneVal

C36_Witness ==
    /\ expr = Plus(L(chatIso), L(upper))
    /\ input = <<Str(<<"a">>), FailingItem, Str(<<"a">>)>>
    /\ status = "done"
    /\ Len(out) = 3
    /\ out[2] = from_text(Upper(ApiError.msg), EmptyDict)

----------------------------------------------------------------------------
(* ParallelProcessor under fair scheduling (SpecLive) *)

\* a composite is running none of whose branches raises on this input
RunsWithoutFailure == status = "running" /\ gen.g = "par" /\ FailingBranches = {}

\* every branch output has been yielded and the stream has ended: each
\* of these branches yields one packet for each input packet
AllYielded ==
    /\ status = "done"
    /\ \A i \in Branches :
          /\ gen.tasks[i].st = "done"
          /\ Len(Group(i)) = Len(input)
          /\ Group(i) = gen.tasks[i].results

\* a task has completed whose results the caller has not been given in full
CompletedNotYielded ==
    \/ gen.taken < Len(gen.order)
    \/ gen.cur # 0 /\ gen.ri < Len(gen.tasks[gen.cur].results)

\* the caller's next __anext__ goes ahead: it yields a packet, ends the
\* stream, or at least takes the next completed task
CallerGoesAhead == LET r == Next(gen) IN r.k # "pending" \/ r.g # gen

\* C37: Parallel liveness.  Under fair scheduling, an invocation on a finite
\* input whose branches all terminate without raising leads to a state where
\* every output of every branch has been yielded and the stream has ended.
\* And a branch that is still running never holds back a completed one:
\* whenever some completed task's results have not been yielded in full, the
\* caller's next step goes ahead without any other task taking a step.
C37_ParallelLiveness ==
    /\ RunsWithoutFailure ~> AllYielded
    /\ []((RunsWithoutFailure /\ Merging /\ ~HasCreated(gen) /\ CompletedNotYielded)
             => CallerGoesAhead)

\* the first branch is still waiting for the API while the results of the
\* second, which has completed, have all been yielded
C37_Witness ==
    /\ RunsWithoutFailure /\ Merging
    /\ Len(proc.processors) = 2
    /\ gen.tasks[1].st = "running"
    /\ gen.tasks[2].st = "done"
    /\ Len(input) = 2
    /\ Len(Group(2)) = 2
    /\ Group(1) = <<>>

\* the invocation was aborted: a branch's exception has reached the caller
Aborted == gen.g = "par" /\ gen.phase = "merge" /\ status = "raised"

\* the event loop can run a step of branch task i
TaskCanStep(i) == \E s \in TaskSuccs(gen) : s.g.tasks[i] # gen.tasks[i]

============================================================================
